---- MODULE Spec2Model ----
(***************************************************************************)
(* A model of tinymudserver (src/tinymudserver.cpp): the main loop, the    *)
(* per-connection login state machine, the command handlers, the broadcast *)
(* fan-out and the player files.                                           *)
(*                                                                         *)
(* Text is modelled at the level of characters: a string is a sequence of  *)
(* one-character strings, an istream is a record (buffer, position, fail   *)
(* and eof bits) and the extraction operators work on it as the C++        *)
(* library does.  Text queued for a player (outbuf) is a sequence of       *)
(* formatted items, one item per output statement of the source.           *)
(***************************************************************************)
EXTENDS Integers, Sequences, FiniteSets, TLC

(***************************************************************************)
(* Characters and strings                                                  *)
(***************************************************************************)

\* the printable ASCII characters, in code order (32 .. 126); the grave accent
\* (code 96), which the program never handles, is held by a placeholder
Printable ==
  << " ", "!", "\"", "#", "$", "%", "&", "'", "(", ")", "*", "+", ",", "-", ".", "/",
     "0", "1", "2", "3", "4", "5", "6", "7", "8", "9", ":", ";", "<", "=", ">", "?",
     "@", "A", "B", "C", "D", "E", "F", "G", "H", "I", "J", "K", "L", "M", "N", "O",
     "P", "Q", "R", "S", "T", "U", "V", "W", "X", "Y", "Z", "[", "\\", "]", "^", "_",
     "<96>", "a", "b", "c", "d", "e", "f", "g", "h", "i", "j", "k", "l", "m", "n", "o",
     "p", "q", "r", "s", "t", "u", "v", "w", "x", "y", "z", "{", "|", "}", "~" >>

Chars == {Printable[i] : i \in 1..Len(Printable)} \cup {"\n", "\t", "\r"}

RECURSIVE OrdFrom(_)
\* the codes of the printable characters from the i-th on, and of the
\* control characters
OrdFrom(i) ==
  IF i > Len(Printable)
    THEN ("\t" :> 9) @@ ("\n" :> 10) @@ ("\r" :> 13)
    ELSE (Printable[i] :> 31 + i) @@ OrdFrom(i + 1)

\* the character code of c
OrdTable == OrdFrom(1)

Ord(c) == OrdTable[c]

\* the character with code n (printable range)
Chr(n) == Printable[n - 31]

isupper(c) == Ord(c) >= 65 /\ Ord(c) <= 90
islower(c) == Ord(c) >= 97 /\ Ord(c) <= 122
isdigit(c) == Ord(c) >= 48 /\ Ord(c) <= 57
isalnum(c) == isupper(c) \/ islower(c) \/ isdigit(c)
isspace(c) == c \in {" ", "\t", "\n", "\r"}

tolowerChar(c) == IF isupper(c) THEN Chr(Ord(c) + 32) ELSE c
toupperChar(c) == IF islower(c) THEN Chr(Ord(c) - 32) ELSE c

\* what gets removed when we trim
SPACES == <<" ", "\t", "\r", "\n">>

\* player names must consist of characters from this list
valid_player_name ==
  {c \in Chars : isalnum(c) \/ c = "_" \/ c = "-"}

\* string::find_first_not_of over a set of characters: 0 stands for npos
find_first_not_of(s, set) ==
  IF \E i \in 1..Len(s) : s[i] \notin set
    THEN CHOOSE i \in 1..Len(s) : s[i] \notin set /\ \A j \in 1..(i - 1) : s[j] \in set
    ELSE 0

\* string::find (ch): the first index of ch in s, 0 stands for npos
find(s, ch) ==
  IF \E i \in 1..Len(s) : s[i] = ch
    THEN CHOOSE i \in 1..Len(s) : s[i] = ch /\ \A j \in 1..(i - 1) : s[j] # ch
    ELSE 0

\* get rid of leading and trailing spaces from a string
Trim(s) ==
  LET sp   == {SPACES[k] : k \in 1..Len(SPACES)}
      keep == {i \in 1..Len(s) : s[i] \notin sp}
  IN  IF keep = {}
        THEN <<>>
        ELSE LET last  == CHOOSE i \in keep : \A j \in keep : j <= i
                 first == CHOOSE i \in keep : \A j \in keep : i <= j
             IN  SubSeq(SubSeq(s, 1, last), first, last)

RECURSIVE tolower(_)
\* returns a lower case version of the string
tolower(s) ==
  IF s = <<>> THEN <<>> ELSE <<tolowerChar(Head(s))>> \o tolower(Tail(s))

RECURSIVE fCapitals(_, _)
\* capitalise a sequence: bUpper says whether the next letter is in capitals
fCapitals(s, bUpper) ==
  IF s = <<>>
    THEN <<>>
    ELSE LET c  == Head(s)
             c1 == IF bUpper THEN toupperChar(c) ELSE tolowerChar(c)
         IN  <<c1>> \o fCapitals(Tail(s), ~isalnum(c))

\* returns a capitalized version of the string
tocapitals(s) == fCapitals(s, TRUE)

\* case-independent string compare: TRUE if the strings are EQUAL
ciEqualTo(s1, s2) ==
  /\ Len(s1) = Len(s2)
  /\ \A i \in 1..Len(s1) : tolowerChar(s1[i]) = tolowerChar(s2[i])

ciStringEqual(s1, s2) == ciEqualTo(s1, s2)

RECURSIVE ciLess(_, _)
\* case-independent string less-than (lexicographical_compare)
ciLess(s1, s2) ==
  IF s2 = <<>> THEN FALSE
  ELSE IF s1 = <<>> THEN TRUE
  ELSE LET a == Ord(tolowerChar(Head(s1)))
           b == Ord(tolowerChar(Head(s2)))
       IN  IF a < b THEN TRUE
           ELSE IF b < a THEN FALSE
           ELSE ciLess(Tail(s1), Tail(s2))

\* the digits of a non-negative integer
RECURSIVE Digits(_)
Digits(n) ==
  IF n < 10 THEN <<Chr(48 + n)>> ELSE Digits(n \div 10) \o <<Chr(48 + (n % 10))>>

\* ostream << int
IntToStr(n) == IF n < 0 THEN <<"-">> \o Digits(0 - n) ELSE Digits(n)

(***************************************************************************)
(* set<string, ciLess>: a set of strings no two of which are equal when    *)
(* case is ignored                                                         *)
(***************************************************************************)

ciFind(set, x) == \E y \in set : ciStringEqual(y, x)
ciInsert(set, x) == IF ciFind(set, x) THEN set ELSE set \cup {x}
ciErase(set, x) == {y \in set : ~ciStringEqual(y, x)}

RECURSIVE ciSorted(_)
\* the elements of the set in iteration order (ascending by ciLess)
ciSorted(set) ==
  IF set = {}
    THEN <<>>
    ELSE LET m == CHOOSE x \in set : \A y \in set : ~ciLess(y, x)
         IN  <<m>> \o ciSorted(set \ {m})

(***************************************************************************)
(* istream: a buffer, the next position to read, and the state bits        *)
(***************************************************************************)

istringstream(s) == [buf |-> s, pos |-> 1, fail |-> FALSE, eof |-> FALSE]

good(is) == ~is.fail /\ ~is.eof

\* the first position >= p of is.buf that holds no white space (Len + 1 if none)
RECURSIVE SkipFrom(_, _)
SkipFrom(is, p) ==
  IF p <= Len(is.buf) /\ isspace(is.buf[p]) THEN SkipFrom(is, p + 1) ELSE p

\* the first position >= p of is.buf that holds white space (Len + 1 if none)
RECURSIVE WordEnd(_, _)
WordEnd(is, p) ==
  IF p <= Len(is.buf) /\ ~isspace(is.buf[p]) THEN WordEnd(is, p + 1) ELSE p

\* istream::sentry: the stream after the prefix operations; the extraction
\* goes ahead only if the result is good
sentry(is, noskipws) ==
  LET Skipped(p) ==
        IF p > Len(is.buf)
          THEN [is EXCEPT !.pos = p, !.eof = TRUE, !.fail = TRUE]
          ELSE [is EXCEPT !.pos = p]
  IN  IF ~good(is)
        THEN [is EXCEPT !.fail = TRUE]
        ELSE IF noskipws
               THEN is
               ELSE Skipped(SkipFrom(is, is.pos))

\* is >> ws
SkipWs(is) ==
  LET At(s, p) == [s EXCEPT !.pos = p, !.eof = (p > Len(s.buf))]
      Eat(s)   == IF ~good(s) THEN s ELSE At(s, SkipFrom(s, s.pos))
  IN  Eat(sentry(is, TRUE))

\* is >> str : the stream afterwards, and the string (old when nothing is read)
ReadWord(is, old) ==
  LET Upto(s, e) ==
        [is  |-> [s EXCEPT !.pos = e, !.eof = (e > Len(s.buf))],
         val |-> SubSeq(s.buf, s.pos, e - 1)]
      Extract(s) ==
        IF ~good(s)
          THEN [is |-> s, val |-> old]
          ELSE Upto(s, WordEnd(s, s.pos))
  IN  Extract(sentry(is, FALSE))

RECURSIVE DigitsEnd(_, _)
DigitsEnd(is, p) ==
  IF p <= Len(is.buf) /\ isdigit(is.buf[p]) THEN DigitsEnd(is, p + 1) ELSE p

RECURSIVE StrToNat(_)
StrToNat(s) ==
  IF s = <<>> THEN 0
  ELSE StrToNat(SubSeq(s, 1, Len(s) - 1)) * 10 + (Ord(s[Len(s)]) - 48)

\* is >> int : the stream afterwards, and the number (0 when the parse fails,
\* old when the stream was not good)
ReadInt(is, old) ==
  LET Number(s, neg, d0, e) ==
        IF e = d0
          THEN [is  |-> [s EXCEPT !.pos = d0, !.fail = TRUE,
                                  !.eof = (d0 > Len(s.buf))],
                val |-> 0]
          ELSE [is  |-> [s EXCEPT !.pos = e, !.eof = (e > Len(s.buf))],
                val |-> IF neg THEN 0 - StrToNat(SubSeq(s.buf, d0, e - 1))
                               ELSE StrToNat(SubSeq(s.buf, d0, e - 1))]
      Signed(s, d0) == Number(s, s.buf[s.pos] = "-", d0, DigitsEnd(s, d0))
      Extract(s) ==
        IF ~good(s)
          THEN [is |-> s, val |-> old]
          ELSE Signed(s, IF s.buf[s.pos] \in {"-", "+"} THEN s.pos + 1 ELSE s.pos)
  IN  Extract(sentry(is, FALSE))

\* the first position >= p of is.buf that holds a newline (Len + 1 if none)
RECURSIVE LineEnd(_, _)
LineEnd(is, p) ==
  IF p <= Len(is.buf) /\ is.buf[p] # "\n" THEN LineEnd(is, p + 1) ELSE p

\* getline (is, str): str starts empty at every call of the source
getline(is) ==
  LET Upto(s, e) ==
        IF e > Len(s.buf)
          THEN [is  |-> [s EXCEPT !.pos = e, !.eof = TRUE,
                                  !.fail = (e = s.pos)],
                val |-> SubSeq(s.buf, s.pos, e - 1)]
          ELSE [is  |-> [s EXCEPT !.pos = e + 1],
                val |-> SubSeq(s.buf, s.pos, e - 1)]
      Extract(s) ==
        IF ~good(s)
          THEN [is |-> s, val |-> <<>>]
          ELSE Upto(s, LineEnd(s, s.pos))
  IN  Extract(sentry(is, TRUE))

\* is.ignore (max, newline): skip the rest of this line
ignoreLine(is) ==
  LET Upto(s, e) ==
        IF e > Len(s.buf)
          THEN [s EXCEPT !.pos = e, !.eof = TRUE]
          ELSE [s EXCEPT !.pos = e + 1]
      Skip(s) == IF ~good(s) THEN s ELSE Upto(s, LineEnd(s, s.pos))
  IN  Skip(sentry(is, TRUE))


(***************************************************************************)
(* Configuration constants                                                 *)
(***************************************************************************)

INITIAL_ROOM == 1000
MAX_PASSWORD_ATTEMPTS == 3
NO_SOCKET == -1

\* a piece of text queued for a player: the literal text of one output
\* statement, with the strings streamed into it
Fmt(text, args) == [text |-> text, args |-> args]

PROMPT == Fmt("> ", <<>>)

(***************************************************************************)
(* Words of the command language, player names and flags, as strings       *)
(***************************************************************************)

w_look == <<"l", "o", "o", "k">>
w_l == <<"l">>
w_quit == <<"q", "u", "i", "t">>
w_say == <<"s", "a", "y">>
w_quote == <<"\"">>
w_tell == <<"t", "e", "l", "l">>
w_shutdown == <<"s", "h", "u", "t", "d", "o", "w", "n">>
w_help == <<"h", "e", "l", "p">>
w_goto == <<"g", "o", "t", "o">>
w_transfer == <<"t", "r", "a", "n", "s", "f", "e", "r">>
w_setflag == <<"s", "e", "t", "f", "l", "a", "g">>
w_clearflag == <<"c", "l", "e", "a", "r", "f", "l", "a", "g">>
w_new == <<"n", "e", "w">>
w_me == <<"m", "e">>
w_self == <<"s", "e", "l", "f">>
f_blocked == <<"b", "l", "o", "c", "k", "e", "d">>
f_gagged == <<"g", "a", "g", "g", "e", "d">>
f_can_setflag == <<"c", "a", "n", "_", "s", "e", "t", "f", "l", "a", "g">>
f_can_shutdown == <<"c", "a", "n", "_", "s", "h", "u", "t", "d", "o", "w", "n">>
f_can_goto == <<"c", "a", "n", "_", "g", "o", "t", "o">>
f_can_transfer == <<"c", "a", "n", "_", "t", "r", "a", "n", "s", "f", "e", "r">>

(***************************************************************************)
(* What the server loads at start-up: the control file (directions,        *)
(* prohibited names, blocked addresses), the messages and the rooms        *)
(***************************************************************************)

\* directions (a set<string, ciLess>)
directionset == {<<"n">>, <<"s">>, <<"u">>, <<"d">>}

\* bad player names (a set<string, ciLess>)
badnameset == {w_new, w_quit}

\* blocked IP addresses (a set<string>)
blockedIP == {<<"6", ".", "6">>}

\* messages
messagemap ==
  [welcome         |-> "<welcome>",
   motd            |-> "<motd>",
   new_player      |-> "<new_player>",
   existing_player |-> "<existing_player>",
   help            |-> "<help>"]

\* map of all rooms; the exits of a room are held in key order. The exit
\* "u" of room 1000 leads to a room that is not in the map.
roommap ==
  [vnum \in {1000, 1001, 1002} |->
     IF vnum = 1000
       THEN [description |-> "<hall>",
             exits |-> <<[dir |-> <<"n">>, to |-> 1001], [dir |-> <<"u">>, to |-> 9999]>>]
     ELSE IF vnum = 1001
       THEN [description |-> "<yard>",
             exits |-> <<[dir |-> <<"s">>, to |-> 1000]>>]
       ELSE [description |-> "<cell>", exits |-> <<>>]]

(***************************************************************************)
(* The state                                                               *)
(***************************************************************************)

VARIABLES
  playerlist,   \* list of all connected players (tPlayer records)
  bStopNow,     \* when set, the MUD shuts down
  files,        \* the player files: name of the player |-> text of the file
  net,          \* the client side of each socket: the bytes on their way, by fd
  waiting,      \* the clients that have not connected yet
  in_set,       \* comms descriptors (sockets registered for reading)
  out_set,      \* comms descriptors (sockets registered for writing)
  pc,           \* where the main program is
  cursor,       \* the player of playerlist that processDescriptors handles next
  creepy,       \* how many periodic messages have been sent
  shortWrites,  \* how many times a socket has taken less than all the output
  discarded,    \* how many items of output the destructors that ran last left
                \* unsent on sockets that were alive
  wire,         \* the bytes that the socket of a player has taken from write (),
                \* where the output buffer is followed byte by byte
  appended      \* the texts that operator<< has appended for that player

vars == <<playerlist, bStopNow, files, net, waiting, in_set, out_set, pc, cursor, creepy,
         shortWrites, discarded, wire, appended>>

(***************************************************************************)
(* class tPlayer                                                           *)
(***************************************************************************)

NamePrompt == Fmt("Enter your name, or 'new' to create a new character ...  ", <<>>)

\* tPlayer::Init
PlayerInit(p) ==
  [p EXCEPT !.connstate = "eAwaitingName",
            !.room = INITIAL_ROOM,
            !.flags = {},
            !.prompt = NamePrompt]

\* the constructor. badPasswordCount has no initialiser: it holds no number
\* until ProcessPlayerName or ProcessNewPlayerName assigns one
tPlayer(sock, a) ==
  PlayerInit([s |-> sock, address |-> a, outbuf |-> <<>>, inbuf |-> <<>>,
              connstate |-> "eAwaitingName", prompt |-> NamePrompt,
              playername |-> <<>>, password |-> <<>>,
              badPasswordCount |-> "indeterminate",
              room |-> INITIAL_ROOM, closing |-> FALSE, flags |-> {}])

\* true if connected at all
Connected(p) == p.s # NO_SOCKET

\* true if this player actively playing
IsPlaying(p) == Connected(p) /\ p.connstate = "ePlaying" /\ ~p.closing

\* true if we have something to send them
PendingOutput(p) == p.outbuf # <<>>

\* output to player: *p << ...
Out(pl, i, item) == [pl EXCEPT ![i].outbuf = Append(@, item)]

\* is flag set?
HaveFlag(p, name) == ciFind(p.flags, name)

(***************************************************************************)
(* What a handler returns: the player list as it leaves it, whether it set *)
(* bStopNow, and the runtime_error it threw, if any                        *)
(***************************************************************************)

Ok(pl) == [pl |-> pl, stop |-> FALSE, thrown |-> FALSE, what |-> Fmt("", <<>>)]
Throw(pl, what) == [pl |-> pl, stop |-> FALSE, thrown |-> TRUE, what |-> what]

NotPermitted == Fmt("You are not permitted to do that.", <<>>)

(***************************************************************************)
(* Finding players and rooms, sending to players                           *)
(***************************************************************************)

\* functor to help finding a player by name
findPlayerName(p, name) == IsPlaying(p) /\ ciStringEqual(p.playername, name)

\* find a player by name: the index of the first match, 0 for NULL
FindPlayer(pl, name) ==
  IF \E i \in 1..Len(pl) : findPlayerName(pl[i], name)
    THEN CHOOSE i \in 1..Len(pl) :
           /\ findPlayerName(pl[i], name)
           /\ \A j \in 1..(i - 1) : ~findPlayerName(pl[j], name)
    ELSE 0

RoomMissing(vnum) == Fmt("Room number %d does not exist.", <<IntToStr(vnum)>>)

\* FindRoom throws unless the room is in the map
RoomExists(vnum) == vnum \in DOMAIN roommap

\* sendToPlayer, were it to test the connection state alone and not
\* IsPlaying: a player who is closing is sent the message too
sendToPlayerClosing(p, j, message, except, room) ==
  IF p.connstate = "ePlaying" /\ j # except /\ (room = 0 \/ p.room = room)
    THEN [p EXCEPT !.outbuf = Append(@, message)]
    ELSE p

\* sendToPlayer, were it to leave out the test of the room
sendToPlayerAnyRoom(p, j, message, except, room) ==
  IF IsPlaying(p) /\ j # except
    THEN [p EXCEPT !.outbuf = Append(@, message)]
    ELSE p

\* functor for sending messages to all players: the player p, who is the
\* j-th of the list, afterwards
sendToPlayer(p, j, message, except, room) ==
  IF IsPlaying(p) /\ j # except /\ (room = 0 \/ p.room = room)
    THEN [p EXCEPT !.outbuf = Append(@, message)]
    ELSE p

RECURSIVE for_each(_, _, _, _, _)
\* for_each (playerlist.begin (), playerlist.end (), sendToPlayer (...)),
\* from the j-th player on
for_each(pl, j, message, except, room) ==
  IF j > Len(pl)
    THEN pl
    ELSE for_each([pl EXCEPT ![j] = sendToPlayer(pl[j], j, message, except, room)],
                  j + 1, message, except, room)

\* send message to all connected players, possibly excepting one (0 for
\* NULL), possibly only in one room (0 for all rooms)
SendToAll(pl, message, except, room) == for_each(pl, 1, message, except, room)


(***************************************************************************)
(* Helpers of the command handlers                                         *)
(***************************************************************************)

\* NoMore: the error thrown when there is more input, none otherwise
NoMore(is) ==
  LET Check(sLine) ==
        IF sLine # <<>>
          THEN [bad |-> TRUE, what |-> Fmt("Unexpected input: %s", <<sLine>>)]
          ELSE [bad |-> FALSE, what |-> Fmt("", <<>>)]
  IN  Check(getline(is).val)

\* helper function for say, tell, chat, etc.: the rest of the line
GetMessage(is) == getline(SkipWs(is)).val

\* helper function for get a flag: the stream afterwards, the flag, and
\* whether the flag name is not valid
GetFlag(is) ==
  LET Got(r) ==
        [is |-> r.is, flag |-> r.val,
         invalid |-> find_first_not_of(r.val, valid_player_name) # 0]
  IN  Got(ReadWord(SkipWs(is), <<>>))

\* tPlayer::GetPlayer: the stream afterwards, the player found (an index of
\* the list, 0 for NULL) and the error thrown, if any
GetPlayer(pl, i, is, noNameMessage, notme) ==
  LET Found(r, t) ==
        IF r.val = <<>>
          THEN [is |-> r.is, p |-> 0, bad |-> TRUE, what |-> noNameMessage]
        ELSE IF t = 0
          THEN [is |-> r.is, p |-> 0, bad |-> TRUE,
                what |-> Fmt("Player %s is not connected.", <<tocapitals(r.val)>>)]
        ELSE IF notme /\ t = i
          THEN [is |-> r.is, p |-> t, bad |-> TRUE,
                what |-> Fmt("You cannot do that to yourself.", <<>>)]
        ELSE [is |-> r.is, p |-> t, bad |-> FALSE, what |-> Fmt("", <<>>)]
      Named(r) ==
        Found(r, IF ciStringEqual(r.val, w_me) \/ ciStringEqual(r.val, w_self)
                   THEN i
                   ELSE FindPlayer(pl, r.val))
  IN  Named(ReadWord(is, <<>>))

\* ExitIndex, were tExitMap to compare its keys with ciLess as the set of
\* directions does
ExitIndexIgnoringCase(r, dir) ==
  IF \E k \in 1..Len(r.exits) : ciStringEqual(r.exits[k].dir, dir)
    THEN CHOOSE k \in 1..Len(r.exits) : ciStringEqual(r.exits[k].dir, dir)
    ELSE 0

\* the exit of room r for the direction dir (an exact, case-sensitive match
\* of the key of the map): 0 when there is none
ExitIndex(r, dir) ==
  IF \E k \in 1..Len(r.exits) : r.exits[k].dir = dir
    THEN CHOOSE k \in 1..Len(r.exits) : r.exits[k].dir = dir
    ELSE 0

(***************************************************************************)
(* The command handlers.  Each takes the player list, the index i of the   *)
(* player and the stream of arguments.                                     *)
(***************************************************************************)

RECURSIVE ExitNames(_)
\* the loop of DoLook over the exits of the room: their names
ExitNames(exits) ==
  IF exits = <<>> THEN <<>> ELSE <<Head(exits).dir>> \o ExitNames(Tail(exits))

RECURSIVE OtherPlayers(_, _, _)
\* the loop of DoLook over all players, from the j-th on: the names of the
\* other players in the same room
OtherPlayers(pl, i, j) ==
  IF j > Len(pl)
    THEN <<>>
    ELSE (IF j # i /\ IsPlaying(pl[j]) /\ pl[j].room = pl[i].room
            THEN <<pl[j].playername>>
            ELSE <<>>) \o OtherPlayers(pl, i, j + 1)

\* look
DoLook(pl, i, is) ==
  LET Exits(q, r) ==
        IF r.exits # <<>>
          THEN Out(q, i, Fmt("Exits: %s \n", ExitNames(r.exits)))
          ELSE q
      Others(q, others) ==
        IF others # <<>>
          THEN Out(q, i, Fmt("You also see %s.\n", others))
          ELSE q
      Look(nm, p) ==
        IF nm.bad THEN Throw(pl, nm.what)
        ELSE IF ~RoomExists(p.room) THEN Throw(pl, RoomMissing(p.room))
        ELSE Ok(Others(Exits(Out(pl, i, Fmt(roommap[p.room].description, <<>>)),
                             roommap[p.room]),
                       OtherPlayers(pl, i, 1)))
  IN  Look(NoMore(is), pl[i])

\* quit, were it to hand the session back to the login as the third wrong
\* password does
DoQuitToLogin(pl, i, is) ==
  LET Leave(p) ==
        IF p.connstate = "ePlaying"
          THEN SendToAll(Out(pl, i, Fmt("See you next time!\n", <<>>)),
                         Fmt("Player %s has left the game.\n", <<p.playername>>),
                         i, 0)
          ELSE pl
      Quit(nm) ==
        IF nm.bad THEN Throw(pl, nm.what)
        ELSE Ok([Leave(pl[i]) EXCEPT ![i] = PlayerInit([@ EXCEPT !.closing = TRUE])])
  IN  Quit(NoMore(is))

\* quit
DoQuit(pl, i, is) ==
  LET Leave(p) ==
        IF p.connstate = "ePlaying"
          THEN SendToAll(Out(pl, i, Fmt("See you next time!\n", <<>>)),
                         Fmt("Player %s has left the game.\n", <<p.playername>>),
                         i, 0)
          ELSE pl
      Quit(nm) ==
        IF nm.bad THEN Throw(pl, nm.what)
        ELSE Ok([Leave(pl[i]) EXCEPT ![i].closing = TRUE])
  IN  Quit(NoMore(is))

\* DoSay, were it to leave out the room in its call of SendToAll
DoSayEverywhere(pl, i, is) ==
  LET Say(p, what) ==
        IF what = <<>> THEN Throw(pl, Fmt("Say what?", <<>>))
        ELSE Ok(SendToAll(Out(pl, i, Fmt("You say, \"%s\"\n", <<what>>)),
                          Fmt("%s says, \"%s\"\n", <<p.playername, what>>),
                          i, 0))
  IN  IF HaveFlag(pl[i], f_gagged) THEN Throw(pl, NotPermitted)
      ELSE Say(pl[i], GetMessage(is))

\* say <something>
DoSay(pl, i, is) ==
  LET Say(p, what) ==
        IF what = <<>> THEN Throw(pl, Fmt("Say what?", <<>>))
        ELSE Ok(SendToAll(Out(pl, i, Fmt("You say, \"%s\"\n", <<what>>)),
                          Fmt("%s says, \"%s\"\n", <<p.playername, what>>),
                          i, p.room))
  IN  IF HaveFlag(pl[i], f_gagged) THEN Throw(pl, NotPermitted)
      ELSE Say(pl[i], GetMessage(is))

\* tell, were the player allowed to be the sender
DoTellAnyone(pl, i, is) ==
  LET Tell(p, g, what) ==
        IF what = <<>> THEN Throw(pl, Fmt("Tell %s what?", <<p.playername>>))
        ELSE Ok(Out(Out(pl, i, Fmt("You tell %s, \"%s\"\n", <<p.playername, what>>)),
                    g.p, Fmt("%s tells you, \"%s\"\n", <<p.playername, what>>)))
      Whom(p, g) ==
        IF g.bad THEN Throw(pl, g.what) ELSE Tell(p, g, GetMessage(g.is))
  IN  IF HaveFlag(pl[i], f_gagged) THEN Throw(pl, NotPermitted)
      ELSE Whom(pl[i], GetPlayer(pl, i, is, Fmt("Tell whom?", <<>>), FALSE))

\* tell <someone> <something>
DoTell(pl, i, is) ==
  LET Tell(p, g, what) ==
        IF what = <<>> THEN Throw(pl, Fmt("Tell %s what?", <<p.playername>>))
        ELSE Ok(Out(Out(pl, i, Fmt("You tell %s, \"%s\"\n", <<p.playername, what>>)),
                    g.p, Fmt("%s tells you, \"%s\"\n", <<p.playername, what>>)))
      Whom(p, g) ==
        IF g.bad THEN Throw(pl, g.what) ELSE Tell(p, g, GetMessage(g.is))
  IN  IF HaveFlag(pl[i], f_gagged) THEN Throw(pl, NotPermitted)
      ELSE Whom(pl[i], GetPlayer(pl, i, is, Fmt("Tell whom?", <<>>), TRUE))

\* DoSetFlag, were it to leave out the check that the flag is not set
DoSetFlagUnchecked(pl, i, is) ==
  LET Set(g, f, nm) ==
        IF f.flag = <<>> THEN Throw(pl, Fmt("Set which flag?", <<>>))
        ELSE IF f.invalid THEN Throw(pl, Fmt("Flag name not valid.", <<>>))
        ELSE IF nm.bad THEN Throw(pl, nm.what)
        ELSE Ok(Out([pl EXCEPT ![g.p].flags = ciInsert(@, f.flag)], i,
                    Fmt("You set the flag '%s' for %s\n", <<f.flag, pl[g.p].playername>>)))
      Flag(g, f) == Set(g, f, NoMore(f.is))
      Who(g) == IF g.bad THEN Throw(pl, g.what) ELSE Flag(g, GetFlag(g.is))
  IN  IF ~HaveFlag(pl[i], f_can_setflag) THEN Throw(pl, NotPermitted)
      ELSE Who(GetPlayer(pl, i, is, Fmt("Usage: setflag <who> <flag>", <<>>), FALSE))

\* setflag <who> <flag>
DoSetFlag(pl, i, is) ==
  LET Set(g, f, nm) ==
        IF f.flag = <<>> THEN Throw(pl, Fmt("Set which flag?", <<>>))
        ELSE IF f.invalid THEN Throw(pl, Fmt("Flag name not valid.", <<>>))
        ELSE IF nm.bad THEN Throw(pl, nm.what)
        ELSE IF ciFind(pl[g.p].flags, f.flag) THEN Throw(pl, Fmt("Flag already set.", <<>>))
        ELSE Ok(Out([pl EXCEPT ![g.p].flags = ciInsert(@, f.flag)], i,
                    Fmt("You set the flag '%s' for %s\n", <<f.flag, pl[g.p].playername>>)))
      Flag(g, f) == Set(g, f, NoMore(f.is))
      Who(g) == IF g.bad THEN Throw(pl, g.what) ELSE Flag(g, GetFlag(g.is))
  IN  IF ~HaveFlag(pl[i], f_can_setflag) THEN Throw(pl, NotPermitted)
      ELSE Who(GetPlayer(pl, i, is, Fmt("Usage: setflag <who> <flag>", <<>>), FALSE))

\* clearflag <who> <flag>
DoClearFlag(pl, i, is) ==
  LET Clear(g, f, nm) ==
        IF f.flag = <<>> THEN Throw(pl, Fmt("Clear which flag?", <<>>))
        ELSE IF f.invalid THEN Throw(pl, Fmt("Flag name not valid.", <<>>))
        ELSE IF nm.bad THEN Throw(pl, nm.what)
        ELSE IF ~ciFind(pl[g.p].flags, f.flag) THEN Throw(pl, Fmt("Flag not set.", <<>>))
        ELSE Ok(Out([pl EXCEPT ![g.p].flags = ciErase(@, f.flag)], i,
                    Fmt("You clear the flag '%s' for %s\n", <<f.flag, pl[g.p].playername>>)))
      Flag(g, f) == Clear(g, f, NoMore(f.is))
      Who(g) == IF g.bad THEN Throw(pl, g.what) ELSE Flag(g, GetFlag(g.is))
  IN  IF ~HaveFlag(pl[i], f_can_setflag) THEN Throw(pl, NotPermitted)
      ELSE Who(GetPlayer(pl, i, is, Fmt("Usage: clearflag <who> <flag>", <<>>), FALSE))

\* shutdown without the test of can_shutdown
DoShutdownUnchecked(pl, i, is) ==
  LET Down(nm, p) ==
        IF nm.bad THEN Throw(pl, nm.what)
        ELSE [Ok(SendToAll(pl, Fmt("%s shuts down the game\n", <<p.playername>>), 0, 0))
                EXCEPT !.stop = TRUE]
  IN  Down(NoMore(is), pl[i])

\* shutdown
DoShutdown(pl, i, is) ==
  LET Down(nm, p) ==
        IF nm.bad THEN Throw(pl, nm.what)
        ELSE IF ~HaveFlag(p, f_can_shutdown) THEN Throw(pl, NotPermitted)
        ELSE [Ok(SendToAll(pl, Fmt("%s shuts down the game\n", <<p.playername>>), 0, 0))
                EXCEPT !.stop = TRUE]
  IN  Down(NoMore(is), pl[i])

\* help
DoHelp(pl, i, is) ==
  LET Help(nm) ==
        IF nm.bad THEN Throw(pl, nm.what)
        ELSE Ok(Out(pl, i, Fmt(messagemap.help, <<>>)))
  IN  Help(NoMore(is))

RECURSIVE ProcessCommand(_, _, _)

\* tPlayer::DoCommand: simulate player input (eg. look)
DoCommand(pl, i, command) == ProcessCommand(pl, i, istringstream(command))

\* the move, were the room looked for after the others in the old room
\* have been told
PlayerToRoomFindingLate(pl, i, vnum, sPlayerMessage, sOthersDepartMessage, sOthersArrriveMessage) ==
  LET Arrived(r) ==
        IF r.thrown
          THEN r
          ELSE Ok(SendToAll(r.pl, sOthersArrriveMessage, i, r.pl[i].room))
      Moved(departed) ==
        Out([departed EXCEPT ![i].room = vnum], i, sPlayerMessage)
      Left(departed) ==
        IF ~RoomExists(vnum)
          THEN Throw(departed, RoomMissing(vnum))
          ELSE Arrived(DoCommand(Moved(departed), i, w_look))
  IN  Left(SendToAll(pl, sOthersDepartMessage, i, pl[i].room))

\* the move, were the others in the old room told after the player has
\* been put in the new room
PlayerToRoomLeavingLate(pl, i, vnum, sPlayerMessage, sOthersDepartMessage, sOthersArrriveMessage) ==
  LET Arrived(r) ==
        IF r.thrown
          THEN r
          ELSE Ok(SendToAll(r.pl, sOthersArrriveMessage, i, r.pl[i].room))
      Moved(departed) ==
        SendToAll(Out([departed EXCEPT ![i].room = vnum], i, sPlayerMessage),
                  sOthersDepartMessage, i, vnum)
  IN  IF ~RoomExists(vnum)
        THEN Throw(pl, RoomMissing(vnum))
        ELSE Arrived(DoCommand(Moved(pl), i, w_look))

\* move player i to room vnum
PlayerToRoom(pl, i, vnum, sPlayerMessage, sOthersDepartMessage, sOthersArrriveMessage) ==
  LET Arrived(r) ==
        IF r.thrown
          THEN r
          ELSE Ok(SendToAll(r.pl, sOthersArrriveMessage, i, r.pl[i].room))
      Moved(departed) ==
        Out([departed EXCEPT ![i].room = vnum], i, sPlayerMessage)
  IN  IF ~RoomExists(vnum)
        THEN Throw(pl, RoomMissing(vnum))
        ELSE Arrived(DoCommand(Moved(SendToAll(pl, sOthersDepartMessage, i, pl[i].room)),
                               i, w_look))

\* a movement command
DoDirection(pl, i, sArgs) ==
  LET Go(p, r, k) ==
        IF k = 0 THEN Throw(pl, Fmt("You cannot go that way.", <<>>))
        ELSE PlayerToRoom(pl, i, r.exits[k].to,
                          Fmt("You go %s\n", <<sArgs>>),
                          Fmt("%s goes %s\n", <<p.playername, sArgs>>),
                          Fmt("%s enters.\n", <<p.playername>>))
  IN  IF ~RoomExists(pl[i].room) THEN Throw(pl, RoomMissing(pl[i].room))
      ELSE Go(pl[i], roommap[pl[i].room], ExitIndex(roommap[pl[i].room], sArgs))

\* goto <room>
DoGoTo(pl, i, is) ==
  LET Go(p, r, nm) ==
        IF r.is.fail THEN Throw(pl, Fmt("Go to which room?", <<>>))
        ELSE IF nm.bad THEN Throw(pl, nm.what)
        ELSE PlayerToRoom(pl, i, r.val,
                          Fmt("You go to room %d\n", <<IntToStr(r.val)>>),
                          Fmt("%s disappears in a puff of smoke!\n", <<p.playername>>),
                          Fmt("%s appears in a puff of smoke!\n", <<p.playername>>))
      Room(p, r) == Go(p, r, NoMore(r.is))
  IN  IF ~HaveFlag(pl[i], f_can_goto) THEN Throw(pl, NotPermitted)
      ELSE Room(pl[i], ReadInt(is, 0))

\* transfer <who> [ where ]
DoTransfer(pl, i, is) ==
  LET Move(p, t, g, room, nm) ==
        IF nm.bad THEN Throw(pl, nm.what)
        ELSE PlayerToRoom(Out(pl, i, Fmt("You transfer %s to room %d\n",
                                         <<t.playername, IntToStr(room)>>)),
                          g.p, room,
                          Fmt("%s transfers you to another room!\n", <<p.playername>>),
                          Fmt("%s is yanked away by unseen forces!\n", <<t.playername>>),
                          Fmt("%s appears breathlessly!\n", <<t.playername>>))
      Where(p, g, r) ==
        Move(p, pl[g.p], g, IF r.is.fail THEN p.room ELSE r.val, NoMore(r.is))
      Who(p, g) ==
        IF g.bad THEN Throw(pl, g.what) ELSE Where(p, g, ReadInt(g.is, 0))
  IN  IF ~HaveFlag(pl[i], f_can_transfer) THEN Throw(pl, NotPermitted)
      ELSE Who(pl[i], GetPlayer(pl, i, is,
                                Fmt("Usage: transfer <who> [ where ] (default is here)", <<>>),
                                TRUE))

\* process commands when player is connected
ProcessCommand(pl, i, sArgs) ==
  LET Handle(command, is) ==
        IF ciFind(directionset, command) THEN DoDirection(pl, i, command)
        ELSE IF command \in {w_look, w_l} THEN DoLook(pl, i, is)
        ELSE IF command = w_quit THEN DoQuit(pl, i, is)
        ELSE IF command \in {w_say, w_quote} THEN DoSay(pl, i, is)
        ELSE IF command = w_tell THEN DoTell(pl, i, is)
        ELSE IF command = w_shutdown THEN DoShutdown(pl, i, is)
        ELSE IF command = w_help THEN DoHelp(pl, i, is)
        ELSE IF command = w_goto THEN DoGoTo(pl, i, is)
        ELSE IF command = w_transfer THEN DoTransfer(pl, i, is)
        ELSE IF command = w_setflag THEN DoSetFlag(pl, i, is)
        ELSE IF command = w_clearflag THEN DoClearFlag(pl, i, is)
        ELSE Throw(pl, Fmt("Huh?", <<>>))
      Parsed(r) == Handle(r.val, SkipWs(r.is))
  IN  Parsed(ReadWord(sArgs, <<>>))


(***************************************************************************)
(* The player files                                                        *)
(***************************************************************************)

RECURSIVE LoadSetLoop(_, _, _)
\* the loop of LoadSet: while (!is.eof ()) { is >> flag; s.insert (flag); }
LoadSetLoop(is, flag, set) ==
  LET Insert(r) == LoadSetLoop(r.is, r.val, ciInsert(set, r.val))
  IN  IF is.eof THEN set ELSE Insert(ReadWord(is, flag))

\* load a set of flags from a single line in the input stream f: the
\* stream afterwards and the set
LoadSet(f) ==
  LET Parse(l) == [is |-> l.is, set |-> LoadSetLoop(istringstream(l.val), <<>>, {})]
  IN  Parse(getline(f))

\* the player file exists (ifstream f (...); if (f) ...)
FileExists(fs, name) == name \in DOMAIN fs

\* tPlayer::Load: the player p with the details read from its file (the
\* caller has checked that the file exists)
Load(p, fs) ==
  LET Flags(password, room, is) ==
        [p EXCEPT !.password = password, !.room = room, !.flags = LoadSet(ignoreLine(is)).set]
      Room(password, r2) == Flags(password, r2.val, r2.is)
      Password(r1) == Room(r1.val, ReadInt(r1.is, p.room))
  IN  Password(ReadWord(istringstream(fs[p.playername]), p.password))

RECURSIVE JoinFlags(_)
\* copy (flags.begin (), flags.end (), ostream_iterator<string> (f, " "))
JoinFlags(seq) ==
  IF seq = <<>> THEN <<>> ELSE Head(seq) \o <<" ">> \o JoinFlags(Tail(seq))

\* the text tPlayer::Save writes
SaveText(p) ==
  p.password \o <<"\n">> \o IntToStr(p.room) \o <<"\n">>
    \o JoinFlags(ciSorted(p.flags)) \o <<"\n">>

\* tPlayer::Save: the player files afterwards
Save(p, fs) == (p.playername :> SaveText(p)) @@ fs

(***************************************************************************)
(* The handlers of the connection states                                   *)
(***************************************************************************)

NewNamePrompt == Fmt("Please choose a name for your new character ... ", <<>>)
NewPasswordPrompt(name) == Fmt("Choose a password for %s ... ", <<name>>)
AlreadyExists == Fmt("That player already exists, please choose another name.", <<>>)

\* a player has entered the game, were the others told in the room of the
\* player only
PlayerEnteredGameInRoom(pl, i, message) ==
  LET Greeted(p0) ==
        Out(Out(Out([pl EXCEPT ![i].connstate = "ePlaying", ![i].prompt = PROMPT],
                    i, Fmt("Welcome, %s\n\n", <<p0.playername>>)),
                i, Fmt(message, <<>>)),
            i, Fmt(messagemap.motd, <<>>))
      Joined(p0, r) ==
        IF r.thrown
          THEN r
          ELSE Ok(SendToAll(r.pl,
                            Fmt("Player %s has joined the game from %s.\n",
                                <<p0.playername, p0.address>>),
                            i, p0.room))
  IN  Joined(pl[i], DoCommand(Greeted(pl[i]), i, w_look))

\* a player has entered the game
PlayerEnteredGame(pl, i, message) ==
  LET Greeted(p0) ==
        Out(Out(Out([pl EXCEPT ![i].connstate = "ePlaying", ![i].prompt = PROMPT],
                    i, Fmt("Welcome, %s\n\n", <<p0.playername>>)),
                i, Fmt(message, <<>>)),
            i, Fmt(messagemap.motd, <<>>))
      Joined(p0, r) ==
        IF r.thrown
          THEN r
          ELSE Ok(SendToAll(r.pl,
                            Fmt("Player %s has joined the game from %s.\n",
                                <<p0.playername, p0.address>>),
                            i, 0))
  IN  Joined(pl[i], DoCommand(Greeted(pl[i]), i, w_look))

\* eAwaitingName, were the password asked for before the record of the
\* player is loaded
ProcessPlayerNameUnloaded(pl, i, sArgs, fs) ==
  LET Name(playername, named) ==
        IF playername = <<>>
          THEN Throw(pl, Fmt("Name cannot be blank.", <<>>))
        ELSE IF FindPlayer(pl, playername) # 0
          THEN Throw(pl, Fmt("%s is already connected.", <<playername>>))
        ELSE IF find_first_not_of(playername, valid_player_name) # 0
          THEN Throw(pl, Fmt("That player name contains disallowed characters.", <<>>))
        ELSE IF tolower(playername) = w_new
          THEN Ok([pl EXCEPT ![i].connstate = "eAwaitingNewName",
                             ![i].prompt = NewNamePrompt])
        ELSE IF ~FileExists(fs, named.playername)
          THEN Throw([pl EXCEPT ![i] = [named EXCEPT
                                          !.connstate = "eAwaitingPassword",
                                          !.prompt = Fmt("Enter your password ... ", <<>>),
                                          !.badPasswordCount = 0]],
                     Fmt("That player does not exist, type 'new' to create a new one.", <<>>))
        ELSE Ok([pl EXCEPT ![i] = [Load(named, fs) EXCEPT
                                     !.connstate = "eAwaitingPassword",
                                     !.prompt = Fmt("Enter your password ... ", <<>>),
                                     !.badPasswordCount = 0]])
      Read(playername) ==
        Name(playername, [pl[i] EXCEPT !.playername = tocapitals(playername)])
  IN  Read(ReadWord(sArgs, <<>>).val)

\* eAwaitingName
ProcessPlayerName(pl, i, sArgs, fs) ==
  LET Name(playername, named) ==
        IF playername = <<>>
          THEN Throw(pl, Fmt("Name cannot be blank.", <<>>))
        ELSE IF FindPlayer(pl, playername) # 0
          THEN Throw(pl, Fmt("%s is already connected.", <<playername>>))
        ELSE IF find_first_not_of(playername, valid_player_name) # 0
          THEN Throw(pl, Fmt("That player name contains disallowed characters.", <<>>))
        ELSE IF tolower(playername) = w_new
          THEN Ok([pl EXCEPT ![i].connstate = "eAwaitingNewName",
                             ![i].prompt = NewNamePrompt])
        ELSE IF ~FileExists(fs, named.playername)
          THEN Throw([pl EXCEPT ![i] = named],
                     Fmt("That player does not exist, type 'new' to create a new one.", <<>>))
        ELSE Ok([pl EXCEPT ![i] = [Load(named, fs) EXCEPT
                                     !.connstate = "eAwaitingPassword",
                                     !.prompt = Fmt("Enter your password ... ", <<>>),
                                     !.badPasswordCount = 0]])
      Read(playername) ==
        Name(playername, [pl[i] EXCEPT !.playername = tocapitals(playername)])
  IN  Read(ReadWord(sArgs, <<>>).val)

\* eAwaitingNewName
ProcessNewPlayerName(pl, i, sArgs, fs) ==
  LET Name(playername, capitals) ==
        IF playername = <<>>
          THEN Throw(pl, Fmt("Name cannot be blank.", <<>>))
        ELSE IF find_first_not_of(playername, valid_player_name) # 0
          THEN Throw(pl, Fmt("That player name contains disallowed characters.", <<>>))
        ELSE IF ciFind(badnameset, playername)
          THEN Throw(pl, Fmt("That name is not permitted.", <<>>))
        ELSE IF FileExists(fs, capitals) \/ FindPlayer(pl, playername) # 0
          THEN Throw(pl, AlreadyExists)
        ELSE Ok([pl EXCEPT ![i].playername = capitals,
                           ![i].connstate = "eAwaitingNewPassword",
                           ![i].prompt = NewPasswordPrompt(capitals),
                           ![i].badPasswordCount = 0])
      Read(playername) == Name(playername, tocapitals(playername))
  IN  Read(ReadWord(sArgs, <<>>).val)

\* eAwaitingNewPassword
ProcessNewPassword(pl, i, sArgs) ==
  LET Password(password) ==
        IF password = <<>>
          THEN Throw(pl, Fmt("Password cannot be blank.", <<>>))
          ELSE Ok([pl EXCEPT ![i].password = password,
                             ![i].connstate = "eConfirmPassword",
                             ![i].prompt = Fmt("Re-enter password to confirm it ... ", <<>>)])
  IN  Password(ReadWord(sArgs, <<>>).val)

\* eConfirmPassword
ProcessConfirmPassword(pl, i, sArgs, fs) ==
  LET Confirm(password, p) ==
        IF password # p.password
          THEN Throw([pl EXCEPT ![i].connstate = "eAwaitingNewPassword",
                                ![i].prompt = NewPasswordPrompt(p.playername)],
                     Fmt("Password and confirmation do not agree.", <<>>))
        ELSE IF FileExists(fs, tocapitals(password)) \/ FindPlayer(pl, password) # 0
          THEN Throw([pl EXCEPT ![i].connstate = "eAwaitingNewName",
                                ![i].prompt = NewNamePrompt],
                     AlreadyExists)
        ELSE PlayerEnteredGame(pl, i, messagemap.new_player)
  IN  Confirm(ReadWord(sArgs, <<>>).val, pl[i])

\* the handler of the password, were it not to look at the flag blocked
ProcessPlayerPasswordUnblocked(pl, i, sArgs) ==
  LET Try(password, p) ==
        IF password = <<>>
          THEN Throw(pl, Fmt("Password cannot be blank.", <<>>))
        ELSE IF password # p.password
          THEN Throw(pl, Fmt("That password is incorrect.", <<>>))
        ELSE PlayerEnteredGame(pl, i, messagemap.existing_player)
      Failed(counted, count, what) ==
        IF count >= MAX_PASSWORD_ATTEMPTS
          THEN Throw([Out(counted, i, Fmt("Too many attempts to guess the password!\n", <<>>))
                        EXCEPT ![i] = PlayerInit(@)],
                     what)
          ELSE Throw(counted, what)
      Counted(try, count) ==
        Failed([try.pl EXCEPT ![i].badPasswordCount = count], count, try.what)
      Caught(try) ==
        IF ~try.thrown
          THEN try
          ELSE Counted(try, try.pl[i].badPasswordCount + 1)
  IN  Caught(Try(ReadWord(sArgs, <<>>).val, pl[i]))

\* eAwaitingPassword
ProcessPlayerPassword(pl, i, sArgs) ==
  LET Try(password, p) ==
        IF password = <<>>
          THEN Throw(pl, Fmt("Password cannot be blank.", <<>>))
        ELSE IF password # p.password
          THEN Throw(pl, Fmt("That password is incorrect.", <<>>))
        ELSE IF HaveFlag(p, f_blocked)
          THEN Throw([pl EXCEPT ![i].closing = TRUE,
                                ![i].prompt = Fmt("Goodbye.\n", <<>>)],
                     Fmt("You are not permitted to connect.", <<>>))
        ELSE PlayerEnteredGame(pl, i, messagemap.existing_player)
      Failed(counted, count, what) ==
        IF count >= MAX_PASSWORD_ATTEMPTS
          THEN Throw([Out(counted, i, Fmt("Too many attempts to guess the password!\n", <<>>))
                        EXCEPT ![i] = PlayerInit(@)],
                     what)
          ELSE Throw(counted, what)
      Counted(try, count) ==
        Failed([try.pl EXCEPT ![i].badPasswordCount = count], count, try.what)
      Caught(try) ==
        IF ~try.thrown
          THEN try
          ELSE Counted(try, try.pl[i].badPasswordCount + 1)
  IN  Caught(Try(ReadWord(sArgs, <<>>).val, pl[i]))

\* ProcessPlayerInput, were the catch block to return once it has reported
\* the error: the player is re-prompted only when the handler returns
ProcessPlayerInputNoPromptOnError(pl, i, s, fs) ==
  LET Handled(is, st) ==
        IF st = "eAwaitingName" THEN ProcessPlayerName(pl, i, is, fs)
        ELSE IF st = "eAwaitingPassword" THEN ProcessPlayerPassword(pl, i, is)
        ELSE IF st = "eAwaitingNewName" THEN ProcessNewPlayerName(pl, i, is, fs)
        ELSE IF st = "eAwaitingNewPassword" THEN ProcessNewPassword(pl, i, is)
        ELSE IF st = "eConfirmPassword" THEN ProcessConfirmPassword(pl, i, is, fs)
        ELSE ProcessCommand(pl, i, is)
      Caught(r) ==
        [pl   |-> IF r.thrown
                    THEN Out(r.pl, i, Fmt(r.what.text \o "\n", r.what.args))
                    ELSE Out(r.pl, i, r.pl[i].prompt),
         stop |-> r.stop]
  IN  Caught(Handled(istringstream(s), pl[i].connstate))

\* process player input - check connection state, and act accordingly: the
\* player list afterwards, and whether the handler set bStopNow
ProcessPlayerInput(pl, i, s, fs) ==
  LET Handled(is, st) ==
        IF st = "eAwaitingName" THEN ProcessPlayerName(pl, i, is, fs)
        ELSE IF st = "eAwaitingPassword" THEN ProcessPlayerPassword(pl, i, is)
        ELSE IF st = "eAwaitingNewName" THEN ProcessNewPlayerName(pl, i, is, fs)
        ELSE IF st = "eAwaitingNewPassword" THEN ProcessNewPassword(pl, i, is)
        ELSE IF st = "eConfirmPassword" THEN ProcessConfirmPassword(pl, i, is, fs)
        ELSE ProcessCommand(pl, i, is)
      Prompted(q, stop) == [pl |-> Out(q, i, q[i].prompt), stop |-> stop]
      Caught(r) ==
        Prompted(IF r.thrown
                   THEN Out(r.pl, i, Fmt(r.what.text \o "\n", r.what.args))
                   ELSE r.pl,
                 r.stop)
  IN  Caught(Handled(istringstream(s), pl[i].connstate))


(***************************************************************************)
(* Reading from and writing to a player's socket                           *)
(***************************************************************************)

RECURSIVE ExtractLines(_, _, _, _)
\* the loop of tPlayer::ProcessRead: try to extract lines from the input
\* buffer, and do something with each
ExtractLines(pl, i, stop, fs) ==
  LET Again(r) == ExtractLines(r.pl, i, stop \/ r.stop, fs)
      Line(n) ==
        IF n = 0
          THEN [pl |-> pl, stop |-> stop]
          ELSE Again(ProcessPlayerInput([pl EXCEPT ![i].inbuf = SubSeq(@, n + 1, Len(@))],
                                        i, Trim(SubSeq(pl[i].inbuf, 1, n - 1)), fs))
  IN  Line(find(pl[i].inbuf, "\n"))

\* tPlayer::ProcessRead when read () returns the bytes of data
ProcessReadData(pl, i, data, fs) ==
  IF pl[i].closing
    THEN [pl |-> pl, stop |-> FALSE]
    ELSE ExtractLines([pl EXCEPT ![i].inbuf = @ \o data], i, FALSE, fs)

\* tPlayer::ProcessRead when read () returns 0: the connection is closed
ProcessReadClosed(pl, i, fs) ==
  IF pl[i].closing
    THEN [pl |-> pl, stop |-> FALSE]
    ELSE ProcessPlayerInput([pl EXCEPT ![i].s = NO_SOCKET], i, w_quit, fs)

\* tPlayer::ProcessWrite when the socket takes the first n items of outbuf
\* (none when the first write blocks, fewer than all on a partial write)
ProcessWrite(p, n) ==
  IF p.s # NO_SOCKET /\ p.outbuf # <<>>
    THEN [p EXCEPT !.outbuf = SubSeq(@, n + 1, Len(@))]
    ELSE p

(***************************************************************************)
(* The clients and the network                                             *)
(***************************************************************************)

\* the sockets that are open on the server side
OpenSockets(pl) == {pl[j].s : j \in 1..Len(pl)} \ {NO_SOCKET}

\* accept () returns the lowest descriptor that is not in use
NewSocket(pl) == CHOOSE fd \in 1..(Len(pl) + 1) :
                   /\ fd \notin OpenSockets(pl)
                   /\ \A g \in 1..(fd - 1) : g \in OpenSockets(pl)

\* the client side of a descriptor that is not an open socket
NotOpen == [chunks |-> <<>>, hangup |-> FALSE, open |-> FALSE]

RECURSIVE CloseSockets(_, _)
\* the network after close () of the sockets fds
CloseSockets(n, fds) ==
  IF fds = {}
    THEN n
    ELSE LET fd == CHOOSE f \in fds : TRUE
         IN  CloseSockets([n EXCEPT ![fd] = NotOpen], fds \ {fd})

\* the network after accept () has returned the socket fd for the client c
Accepted(n, fd, c) ==
  LET client == [chunks |-> c.chunks, hangup |-> c.hangup, open |-> TRUE]
  IN  IF fd > Len(n) THEN Append(n, client) ELSE [n EXCEPT ![fd] = client]

RECURSIVE AcceptAllStopAtBlocked(_, _, _)
\* the loop, were it to return at a blocked address and not continue
AcceptAllStopAtBlocked(pl, n, clients) ==
  LET Greeted(p) ==
        [p EXCEPT !.outbuf =
           <<Fmt("\nWelcome to the Tiny MUD Server version 2.0.0\n", <<>>),
             Fmt(messagemap.welcome, <<>>),
             p.prompt>>]
      Connect(c, fd) ==
        AcceptAllStopAtBlocked(Append(pl, Greeted(tPlayer(fd, c.address))), Accepted(n, fd, c),
                               Tail(clients))
  IN  IF clients = <<>>
        THEN [pl |-> pl, net |-> n]
      ELSE IF Head(clients).address \in blockedIP
        THEN [pl |-> pl, net |-> n]
      ELSE Connect(Head(clients), NewSocket(pl))

RECURSIVE AcceptAll(_, _, _)
\* the loop of ProcessNewConnection over the connections that are pending:
\* the player list and the network afterwards
AcceptAll(pl, n, clients) ==
  LET Greeted(p) ==
        [p EXCEPT !.outbuf =
           <<Fmt("\nWelcome to the Tiny MUD Server version 2.0.0\n", <<>>),
             Fmt(messagemap.welcome, <<>>),
             p.prompt>>]
      Connect(c, fd) ==
        AcceptAll(Append(pl, Greeted(tPlayer(fd, c.address))), Accepted(n, fd, c),
                  Tail(clients))
  IN  IF clients = <<>>
        THEN [pl |-> pl, net |-> n]
      ELSE IF Head(clients).address \in blockedIP
        THEN AcceptAll(pl, n, Tail(clients))
      ELSE Connect(Head(clients), NewSocket(pl))

RECURSIVE DestroySavingAll(_, _)
\* the destructors, were they to save without testing connstate
DestroySavingAll(gone, fs) ==
  IF gone = <<>>
    THEN fs
    ELSE DestroySavingAll(Tail(gone), Save(Head(gone), fs))

RECURSIVE Destroy(_, _)
\* the destructors of the players of the sequence gone, in order: Save for
\* those that are playing. The player files afterwards
Destroy(gone, fs) ==
  IF gone = <<>>
    THEN fs
    ELSE Destroy(Tail(gone),
                 IF Head(gone).connstate = "ePlaying" THEN Save(Head(gone), fs) ELSE fs)

\* the test of RemoveInactivePlayers, were it to leave out the players that
\* are no longer connected
InactiveClosing(p) == p.closing

Inactive(p) == ~Connected(p) \/ p.closing

(***************************************************************************)
(* The player files and the clients                                        *)
(***************************************************************************)

n_Bob == <<"B", "o", "b">>
n_Eve == <<"E", "v", "e">>
n_Ann == <<"A", "n", "n">>
n_Cat == <<"C", "a", "t">>
n_Gus == <<"G", "u", "s">>
n_Amy == <<"A", "m", "y">>
pw == <<"p", "w">>

\* a player file as tPlayer::Save writes it
PlayerFile(password, room, flags) ==
  SaveText([password |-> password, room |-> room, flags |-> flags])

\* the player files when the server starts: Bob and Cat have no flags, Eve
\* is blocked, Gus is gagged, Ann holds the privileges
InitialFiles ==
  (n_Bob :> PlayerFile(pw, 1000, {}))
    @@ (n_Eve :> PlayerFile(pw, 1000, {f_blocked}))
    @@ (n_Ann :> PlayerFile(pw, 1000, {f_can_setflag, f_can_shutdown,
                                        f_can_goto, f_can_transfer}))
    @@ (n_Cat :> PlayerFile(pw, 1001, {}))
    @@ (n_Gus :> PlayerFile(pw, 1000, {f_gagged}))

a_home == <<"1", ".", "1">>
a_work == <<"2", ".", "2">>
a_bad  == <<"6", ".", "6">>

\* Bob logs in
c_bob ==
  [address |-> a_home,
   chunks  |-> <<<<"b", "o", "b", "\n">>,
                <<"p", "w", "\n">>>>,
   hangup  |-> FALSE]

\* Bob logs in at the third attempt
c_bob_late ==
  [address |-> a_work,
   chunks  |-> <<<<"B", "O", "B", "\n">>,
                <<"n", "o", "\n">>,
                <<"n", "o", "\n">>,
                <<"p", "w", "\n">>>>,
   hangup  |-> FALSE]

\* somebody fails Bob's password three times
c_bob_fail ==
  [address |-> a_work,
   chunks  |-> <<<<"b", "o", "b", "\n">>,
                <<"n", "o", "\n">>,
                <<"\n">>,
                <<"n", "o", "p", "e", "\n">>,
                <<"n", "e", "w", "\n">>>>,
   hangup  |-> FALSE]

\* Eve, who is blocked, logs in
c_eve ==
  [address |-> a_home,
   chunks  |-> <<<<"e", "v", "e", "\n", "p", "w", "\n">>>>,
   hangup  |-> FALSE]

\* Eve's third attempt is the right password
c_eve_fail ==
  [address |-> a_home,
   chunks  |-> <<<<"e", "v", "e", "\n">>,
                <<"n", "o", "\n", "n", "o", "\n">>,
                <<"p", "w", "\n">>>>,
   hangup  |-> FALSE]

\* Amy registers
c_amy ==
  [address |-> a_home,
   chunks  |-> <<<<"n", "e", "w", "\n">>,
                <<"a", "m", "y", "\n">>,
                <<"p", "w", "\n">>,
                <<"p", "w", "\n">>>>,
   hangup  |-> FALSE]

\* Amy registers, after a confirmation that does not agree
c_amy_slow ==
  [address |-> a_work,
   chunks  |-> <<<<"n", "e", "w", "\n", "A", "M", "Y", "\n">>,
                <<"p", "w", "\n", "n", "o", "\n">>,
                <<"p", "w", "\n", "p", "w", "\n">>>>,
   hangup  |-> FALSE]

\* Amy registers with the password bob
c_amy_bob ==
  [address |-> a_home,
   chunks  |-> <<<<"n", "e", "w", "\n">>,
                <<"a", "m", "y", "\n">>,
                <<"b", "o", "b", "\n">>,
                <<"b", "o", "b", "\n">>>>,
   hangup  |-> FALSE]

\* Amy chooses the password quit and disconnects
c_amy_quit ==
  [address |-> a_home,
   chunks  |-> <<<<"n", "e", "w", "\n">>,
                <<"a", "m", "y", "\n">>,
                <<"q", "u", "i", "t", "\n">>>>,
   hangup  |-> TRUE]

\* somebody gives the name Bob and disconnects
c_bob_gone ==
  [address |-> a_work,
   chunks  |-> <<<<"b", "o", "b", "\n">>>>,
   hangup  |-> TRUE]

\* a client from a blocked address
c_bad ==
  [address |-> a_bad,
   chunks  |-> <<<<"b", "o", "b", "\n">>>>,
   hangup  |-> FALSE]

\* the clients of a run, in the order in which they connect
LoginScenarios ==
  {<<c_bob, c_bob_late>>,
   <<c_amy, c_amy_slow>>,
   <<c_bob_fail, c_bob>>,
   <<c_eve, c_eve_fail>>,
   <<c_amy_bob, c_bob>>,
   <<c_amy_quit, c_bob>>,
   <<c_bob_gone, c_amy>>,
   <<c_bad, c_bob>>}

\* Ann sets and clears flags, and quits
c_ann_flags ==
  [address |-> a_home,
   chunks  |-> <<<<"a", "n", "n", "\n", "p", "w", "\n">>,
                <<"s", "e", "t", "f", "l", "a", "g", " ", "a", "n", "n", " ", "c", "a", "n", "_", "g", "o", "t", "o", "\n", "c", "l", "e", "a", "r", "f", "l", "a", "g", " ", "m", "e", " ", "g", "a", "g", "g", "e", "d", "\n", "s", "e", "t", "f", "l", "a", "g", " ", "b", "o", "b", " ", "g", "a", "g", "g", "e", "d", "\n", "c", "l", "e", "a", "r", "f", "l", "a", "g", " ", "B", "O", "B", " ", "g", "a", "g", "g", "e", "d", "\n", "q", "u", "i", "t", "\n">>>>,
   hangup  |-> FALSE]

\* Ann tries to go down: the hall has no such exit; then her connection drops
c_ann_down ==
  [address |-> a_home,
   chunks  |-> <<<<"a", "n", "n", "\n", "p", "w", "\n">>,
                <<"d", "\n">>>>,
   hangup  |-> TRUE]

\* Cat tries to go north (the yard has no such exit) and quits
c_cat_north ==
  [address |-> a_work,
   chunks  |-> <<<<"c", "a", "t", "\n", "p", "w", "\n">>,
                <<"N", "\n", "q", "u", "i", "t", "\n">>>>,
   hangup  |-> FALSE]

\* Gus, who is gagged, says something; then his connection drops
c_gus_say ==
  [address |-> a_work,
   chunks  |-> <<<<"g", "u", "s", "\n", "p", "w", "\n", "s", "a", "y", " ", "h", "i", "\n">>>>,
   hangup  |-> TRUE]

\* Ann logs in
c_ann ==
  [address |-> a_home,
   chunks  |-> <<<<"a", "n", "n", "\n", "p", "w", "\n">>>>,
   hangup  |-> FALSE]

\* Cat logs in; then her connection drops
c_cat ==
  [address |-> a_work,
   chunks  |-> <<<<"c", "a", "t", "\n", "p", "w", "\n">>>>,
   hangup  |-> TRUE]

\* Bob logs in, says something and quits, all in one packet
c_bob_hello ==
  [address |-> a_work,
   chunks  |-> <<<<"b", "o", "b", "\n", "p", "w", "\n", "s", "a", "y", " ", "h", "e", "l", "l", "o", " ", " ", "t", "h", "e", "r", "e", "\n", "q", "u", "i", "t", "\n">>>>,
   hangup  |-> FALSE]

\* the clients of a run, in the order in which they connect: players in the
\* hall and in the yard try to leave by exits that are not there
MoveScenarios == {<<c_cat_north, c_ann_down>>}

\* Ann sets and clears flags of herself and of Bob, or with Gus in the game
FlagScenarios ==
  {<<c_ann_flags, c_bob>>,
   <<c_gus_say, c_ann_flags>>}

\* Bob speaks in the hall; Ann is in the hall and Cat in the yard
SayScenarios == {<<c_bob_hello, c_ann, c_cat>>}

\* Ann logs in and shuts the game down
c_ann_shutdown ==
  [address |-> a_home,
   chunks  |-> <<<<"a", "n", "n", "\n", "p", "w", "\n">>,
                <<"s", "h", "u", "t", "d", "o", "w", "n", "\n">>>>,
   hangup  |-> FALSE]

\* Bob logs in; a later read holds two lines, each of them quit
c_bob_quits ==
  [address |-> a_work,
   chunks  |-> <<<<"b", "o", "b", "\n", "p", "w", "\n">>,
                <<"q", "u", "i", "t", "\n", "q", "u", "i", "t", "\n">>>>,
   hangup  |-> FALSE]

\* players leave the game: by quit, because the connection drops, or
\* because the game is shut down
LeaveScenarios ==
  {<<c_ann_shutdown, c_bob_quits>>,
   <<c_cat, c_bob_quits>>}

\* Bob logs in, tries to go up (the exit of the hall leads to a room that
\* does not exist), goes n to the yard and s back to the hall, and tells
\* Ann and himself something, all in one packet
c_bob_north ==
  [address |-> a_work,
   chunks  |-> <<<<"b", "o", "b", "\n", "p", "w", "\n", "u", "\n", "n", "\n", "s", "\n", "t", "e", "l", "l", " ", "a", "n", "n", " ", "h", "i", "\n", "t", "e", "l", "l", " ", "m", "e", " ", "h", "i", "\n">>>>,
   hangup  |-> FALSE]

\* Ann, who may move others, is in the hall when Bob leaves it and comes
\* back; or Cat is in the yard and Ann in the hall
TravelScenarios ==
  {<<c_ann, c_bob_north>>,
   <<c_cat, c_ann>>}

\* the state after main has loaded the files and opened the control socket
InitWith(scenarios) ==
  /\ playerlist = <<>>
  /\ bStopNow = FALSE
  /\ files = InitialFiles
  /\ net = <<>>
  /\ waiting \in scenarios
  /\ in_set = {}
  /\ out_set = {}
  /\ pc = "periodic"
  /\ cursor = 1
  /\ creepy = 0
  /\ shortWrites = 0
  /\ discarded = 0
  /\ wire = <<>>
  /\ appended = <<>>

Init == InitWith(LoginScenarios)

InitMove == InitWith(MoveScenarios)

InitFlags == InitWith(FlagScenarios)

InitSay == InitWith(SayScenarios)

InitLeave == InitWith(LeaveScenarios)

InitTravel == InitWith(TravelScenarios)

(***************************************************************************)
(* The main program                                                        *)
(***************************************************************************)

\* how many periodic messages the model lets the server send
MaxCreepy == 1

\* how many times the model lets a socket take less than all of the
\* pending output (not writable, write () blocks, or a partial write)
MaxShortWrites == 1

\* ~tPlayer for each player of the sequence gone: ProcessWrite () sends the
\* outstanding text, and what the socket does not take goes with the
\* player. Each socket takes all there is, unless one of them, which is
\* alive and has output pending, takes only the first n items (none when
\* write () blocks)
DestructorsWrite(gone) ==
  \/ /\ discarded' = 0
     /\ UNCHANGED shortWrites
  \/ /\ shortWrites < MaxShortWrites
     /\ \E j \in 1..Len(gone) :
          /\ Connected(gone[j]) /\ PendingOutput(gone[j])
          /\ \E n \in 0..(Len(gone[j].outbuf) - 1) :
               discarded' = Len(ProcessWrite(gone[j], n).outbuf)
     /\ shortWrites' = shortWrites + 1

\* called approximately every 0.5 seconds: sends a message when
\* MESSAGE_INTERVAL seconds have gone by since the last one
PeriodicUpdates ==
  /\ pc = "periodic"
  /\ \/ /\ creepy < MaxCreepy
        /\ playerlist' = SendToAll(playerlist, Fmt("You hear creepy noises ...\n", <<>>), 0, 0)
        /\ creepy' = creepy + 1
     \/ UNCHANGED <<playerlist, creepy>>
  /\ pc' = "reap"
  /\ UNCHANGED <<bStopNow, files, net, waiting, in_set, out_set, cursor, shortWrites, discarded, wire, appended>>

\* delete players who have closed their comms
RemoveInactivePlayers ==
  /\ pc = "reap"
  /\ playerlist' = SelectSeq(playerlist, LAMBDA p : ~Inactive(p))
  /\ files' = Destroy(SelectSeq(playerlist, Inactive), files)
  /\ net' = CloseSockets(net, OpenSockets(SelectSeq(playerlist, Inactive)))
  /\ DestructorsWrite(SelectSeq(playerlist, Inactive))
  /\ pc' = "select"
  /\ UNCHANGED <<bStopNow, waiting, in_set, out_set, cursor, creepy, wire, appended>>

\* setUpDescriptors, were it to leave the sockets with pending output out
\* of out_set
SelectWithoutWriters ==
  /\ pc = "select"
  /\ in_set' = {playerlist[j].s : j \in {k \in 1..Len(playerlist) :
                   Connected(playerlist[k]) /\ ~playerlist[k].closing}}
  /\ out_set' = {}
  /\ pc' = "accept"
  /\ UNCHANGED <<playerlist, bStopNow, files, net, waiting, cursor, creepy, shortWrites, discarded, wire, appended>>

\* MainLoop, from FD_ZERO to select: setUpDescriptors sets the bits for each
\* connected player. in_set and out_set hold what is handed to select; which
\* of these descriptors select reports is decided where FD_ISSET is tested.
Select ==
  /\ pc = "select"
  /\ in_set' = {playerlist[j].s : j \in {k \in 1..Len(playerlist) :
                   Connected(playerlist[k]) /\ ~playerlist[k].closing}}
  /\ out_set' = {playerlist[j].s : j \in {k \in 1..Len(playerlist) :
                   Connected(playerlist[k]) /\ PendingOutput(playerlist[k])}}
  /\ pc' = "accept"
  /\ UNCHANGED <<playerlist, bStopNow, files, net, waiting, cursor, creepy, shortWrites, discarded, wire, appended>>

\* a termination signal: bStopNow is looked at only at the end of an
\* iteration of MainLoop, so the signal is taken where the loop waits
bailout ==
  /\ pc = "select"
  /\ ~bStopNow
  /\ bStopNow' = TRUE
  /\ UNCHANGED <<playerlist, files, net, waiting, in_set, out_set, pc, cursor, creepy, shortWrites, discarded, wire, appended>>

\* new players have connected: the first k waiting clients are pending on
\* the control socket (k = 0: the control socket is not readable)
ProcessNewConnection ==
  /\ pc = "accept"
  /\ \E k \in 0..Len(waiting) :
       \E r \in {AcceptAll(playerlist, net, SubSeq(waiting, 1, k))} :
           /\ playerlist' = r.pl
           /\ net' = r.net
           /\ waiting' = SubSeq(waiting, k + 1, Len(waiting))
           /\ pc' = IF Len(r.pl) = 0 THEN "check" ELSE "read"
  /\ cursor' = 1
  /\ UNCHANGED <<bStopNow, files, in_set, out_set, creepy, shortWrites, discarded, wire, appended>>

\* processDescriptors for the player at the cursor: exceptions (which are
\* only logged) and input
ServiceRead ==
  /\ pc = "read"
  /\ LET p == playerlist[cursor]
     IN  \/ \* not set in in_set, or read () would block
            UNCHANGED <<playerlist, bStopNow, net>>
         \/ /\ Connected(p) /\ p.s \in in_set
            /\ net[p.s].chunks # <<>>
            /\ \E r \in {ProcessReadData(playerlist, cursor, Head(net[p.s].chunks), files)} :
                   /\ playerlist' = r.pl
                   /\ bStopNow' = (bStopNow \/ r.stop)
            /\ net' = [net EXCEPT ![p.s].chunks = Tail(@)]
         \/ /\ Connected(p) /\ p.s \in in_set
            /\ net[p.s].chunks = <<>> /\ net[p.s].hangup
            /\ \E r \in {ProcessReadClosed(playerlist, cursor, files)} :
                   /\ playerlist' = r.pl
                   /\ bStopNow' = (bStopNow \/ r.stop)
            /\ net' = CloseSockets(net, {p.s})
  /\ pc' = "write"
  /\ UNCHANGED <<files, waiting, in_set, out_set, cursor, creepy, shortWrites, discarded, wire, appended>>

\* processDescriptors for the player at the cursor: output
ServiceWrite ==
  /\ pc = "write"
  /\ LET p == playerlist[cursor]
     IN  \/ /\ ~(Connected(p) /\ p.s \in out_set)
            /\ UNCHANGED <<playerlist, shortWrites>>
         \/ /\ Connected(p) /\ p.s \in out_set
            /\ playerlist' = [playerlist EXCEPT ![cursor] = ProcessWrite(p, Len(p.outbuf))]
            /\ UNCHANGED shortWrites
         \/ /\ Connected(p) /\ p.s \in out_set
            /\ shortWrites < MaxShortWrites
            /\ \E n \in 0..(Len(p.outbuf) - 1) :
                 playerlist' = [playerlist EXCEPT ![cursor] = ProcessWrite(p, n)]
            /\ shortWrites' = shortWrites + 1
  /\ cursor' = cursor + 1
  /\ pc' = IF cursor + 1 > Len(playerlist) THEN "check" ELSE "read"
  /\ UNCHANGED <<bStopNow, files, net, waiting, in_set, out_set, creepy, discarded, wire, appended>>

\* while (!bStopNow)
LoopCheck ==
  /\ pc = "check"
  /\ pc' = IF bStopNow THEN "shutdown" ELSE "periodic"
  /\ UNCHANGED <<playerlist, bStopNow, files, net, waiting, in_set, out_set, cursor, creepy, shortWrites, discarded, wire, appended>>

\* main after MainLoop, were it to go straight to CloseComms
ShutdownUnannounced ==
  /\ pc = "shutdown"
  /\ pc' = "closecomms"
  /\ UNCHANGED <<playerlist, bStopNow, files, net, waiting, in_set, out_set, cursor, creepy,
                 shortWrites, discarded, wire, appended>>

\* main after MainLoop: game over - tell them all
Shutdown ==
  /\ pc = "shutdown"
  /\ playerlist' = SendToAll(playerlist, Fmt("\n\n** Game shut down. **\n\n", <<>>), 0, 0)
  /\ pc' = "closecomms"
  /\ UNCHANGED <<bStopNow, files, net, waiting, in_set, out_set, cursor, creepy, shortWrites, discarded, wire, appended>>

\* CloseComms: delete all players (closes connections)
CloseComms ==
  /\ pc = "closecomms"
  /\ files' = Destroy(playerlist, files)
  /\ net' = CloseSockets(net, OpenSockets(playerlist))
  /\ DestructorsWrite(playerlist)
  /\ playerlist' = <<>>
  /\ pc' = "done"
  /\ UNCHANGED <<bStopNow, waiting, in_set, out_set, cursor, creepy, wire, appended>>

Next ==
  \/ PeriodicUpdates
  \/ RemoveInactivePlayers
  \/ Select
  \/ bailout
  \/ ProcessNewConnection
  \/ ServiceRead
  \/ ServiceWrite
  \/ LoopCheck
  \/ Shutdown
  \/ CloseComms

Spec == Init /\ [][Next]_vars

SpecMove == InitMove /\ [][Next]_vars

SpecFlags == InitFlags /\ [][Next]_vars

SpecSay == InitSay /\ [][Next]_vars

SpecLeave == InitLeave /\ [][Next]_vars

SpecTravel == InitTravel /\ [][Next]_vars

\* one client: Cat logs in, and her connection drops at some time or
\* never
InitLive == InitWith({<<c_cat>>})

\* ProcessWrite for the player at the cursor, whose socket select has
\* reported writable, when the socket takes all that is pending
TakesAll ==
  /\ ServiceWrite
  /\ Connected(playerlist[cursor])
  /\ playerlist[cursor].s \in out_set
  /\ playerlist'[cursor].outbuf = <<>>

\* the program when the main loop goes on for as long as it can, and a
\* socket that is again and again offered the pending output takes all of
\* it at some time
SpecLive ==
  /\ InitLive
  /\ [][Next]_vars
  /\ WF_vars(Next)
  /\ SF_vars(TakesAll)

(***************************************************************************)
(* tPlayer::ProcessWrite and operator<<, byte by byte. In the main loop     *)
(* above outbuf holds the items that were appended; here it holds their    *)
(* characters, as the string of the program does.                          *)
(***************************************************************************)

\* send a maximum of 512 at a time
MaxWriteLength == 512

\* outbuf.erase (0, n)
erase(str, n) == SubSeq(str, n + 1, Len(str))

\* what write () returns for iLength bytes on a socket that does not block
\* and that has space for that many bytes: -1 (EWOULDBLOCK) when there is
\* no space, or the number of bytes that it took
write(space, iLength) ==
  IF space = 0 THEN 0 - 1 ELSE IF space < iLength THEN space ELSE iLength

RECURSIVE WriteLoopErasingChunk(_, _, _)
\* the loop, were it to remove from the buffer what it asked write () to
\* send, and not what write () sent
WriteLoopErasingChunk(outbuf, taken, space) ==
  LET Wrote(iLength, nWrite) ==
        IF nWrite < 0
          THEN [outbuf |-> outbuf, taken |-> taken]
        ELSE IF nWrite < iLength
          THEN [outbuf |-> erase(outbuf, iLength), taken |-> taken \o SubSeq(outbuf, 1, nWrite)]
        ELSE WriteLoopErasingChunk(erase(outbuf, iLength), taken \o SubSeq(outbuf, 1, nWrite),
                                   space - nWrite)
      Try(iLength) == Wrote(iLength, write(space, iLength))
  IN  IF outbuf = <<>>
        THEN [outbuf |-> outbuf, taken |-> taken]
        ELSE Try(IF Len(outbuf) < MaxWriteLength THEN Len(outbuf) ELSE MaxWriteLength)

RECURSIVE WriteLoop(_, _, _)
\* the loop of tPlayer::ProcessWrite on a socket that is alive: the buffer
\* afterwards and the bytes that the socket has taken
WriteLoop(outbuf, taken, space) ==
  LET Wrote(iLength, nWrite) ==
        IF nWrite < 0
          THEN [outbuf |-> outbuf, taken |-> taken]
        ELSE IF nWrite < iLength
          THEN [outbuf |-> erase(outbuf, nWrite), taken |-> taken \o SubSeq(outbuf, 1, nWrite)]
        ELSE WriteLoop(erase(outbuf, nWrite), taken \o SubSeq(outbuf, 1, nWrite),
                       space - nWrite)
      Try(iLength) == Wrote(iLength, write(space, iLength))
  IN  IF outbuf = <<>>
        THEN [outbuf |-> outbuf, taken |-> taken]
        ELSE Try(IF Len(outbuf) < MaxWriteLength THEN Len(outbuf) ELSE MaxWriteLength)

\* tPlayer::ProcessWrite, when the socket has space for so many bytes
ProcessWriteBytes(p, space) ==
  IF p.s = NO_SOCKET
    THEN [outbuf |-> p.outbuf, taken |-> <<>>]
    ELSE WriteLoop(p.outbuf, <<>>, space)

RECURSIVE Numbers(_, _)
\* the numbers from a to b, as MAKE_STRING writes them one after another
Numbers(a, b) ==
  IF a > b THEN <<>>
  ELSE IF a = b THEN IntToStr(a)
  ELSE Numbers(a, (a + b) \div 2) \o Numbers(((a + b) \div 2) + 1, b)

\* the texts that are appended: a short line, and a text that is longer
\* than one call of write () is given
OutputTexts == {<<"h", "i", "\n">>, Numbers(100, 271)}

\* the space that the socket can have when ProcessWrite is called
SocketSpaces == {0, 1, 2, 511, 512, 513, 1030, 2000}

\* how many texts the model appends
MaxTexts == 3

InitWrite ==
  /\ playerlist = <<tPlayer(1, a_home)>>
  /\ bStopNow = FALSE
  /\ files = InitialFiles
  /\ net = <<>>
  /\ waiting = <<>>
  /\ in_set = {}
  /\ out_set = {}
  /\ pc = "write"
  /\ cursor = 1
  /\ creepy = 0
  /\ shortWrites = 0
  /\ discarded = 0
  /\ wire = <<>>
  /\ appended = <<>>

\* operator<<: outbuf += MAKE_STRING (i)
AppendOutput ==
  /\ Len(appended) < MaxTexts
  /\ \E text \in OutputTexts :
       /\ playerlist' = [playerlist EXCEPT ![1].outbuf = @ \o text]
       /\ appended' = Append(appended, text)
  /\ UNCHANGED <<bStopNow, files, net, waiting, in_set, out_set, pc, cursor, creepy,
                 shortWrites, discarded, wire>>

\* tPlayer::ProcessWrite for the player, on a socket that has some space
WriteOutput ==
  /\ \E space \in SocketSpaces :
       \E r \in {ProcessWriteBytes(playerlist[1], space)} :
         /\ playerlist' = [playerlist EXCEPT ![1].outbuf = r.outbuf]
         /\ wire' = wire \o r.taken
  /\ UNCHANGED <<bStopNow, files, net, waiting, in_set, out_set, pc, cursor, creepy,
                 shortWrites, discarded, appended>>

NextWrite ==
  \/ AppendOutput
  \/ WriteOutput

SpecWrite == InitWrite /\ [][NextWrite]_vars


(***************************************************************************)
(* The lines that a step of the main loop dispatches                       *)
(***************************************************************************)

RECURSIVE Dispatches(_, _, _)
\* the calls of ProcessPlayerInput that the loop of tPlayer::ProcessRead
\* makes for player i: the line, and the player list before and after
Dispatches(pl, i, fs) ==
  LET Then(sLine, pl0, r) ==
        <<[line |-> sLine, before |-> pl0, after |-> r.pl]>> \o Dispatches(r.pl, i, fs)
      Call(sLine, pl0) == Then(sLine, pl0, ProcessPlayerInput(pl0, i, sLine, fs))
      Line(n) ==
        IF n = 0
          THEN <<>>
          ELSE Call(Trim(SubSeq(pl[i].inbuf, 1, n - 1)),
                    [pl EXCEPT ![i].inbuf = SubSeq(@, n + 1, Len(@))])
  IN  Line(find(pl[i].inbuf, "\n"))

\* this step is ServiceRead taking data from the client of the player at
\* the cursor
TakesData ==
  /\ pc = "read"
  /\ Connected(playerlist[cursor])
  /\ net'[playerlist[cursor].s].open
  /\ net'[playerlist[cursor].s] # net[playerlist[cursor].s]

\* the lines that this step dispatches, when it takes data
Dispatched ==
  Dispatches([playerlist EXCEPT
                ![cursor].inbuf = @ \o Head(net[playerlist[cursor].s].chunks)],
             cursor, files)

\* the first word of a line, as the handlers read it
FirstWord(line) == ReadWord(istringstream(line), <<>>).val

\* the text that a player's output buffer has gained
Gained(before, after) == SubSeq(after.outbuf, Len(before.outbuf) + 1, Len(after.outbuf))

\* the main loop is at the player i, whose socket it is about to read: the
\* states in which a line of player i can be dispatched
Reading(i) == pc = "read" /\ cursor = i

\* how many times an item occurs in a sequence
Count(seq, item) == Cardinality({k \in 1..Len(seq) : seq[k] = item})

(***************************************************************************)
(* C1                                                                      *)
(***************************************************************************)

\* C1: in every reachable state, no two sessions that are both playing have
\* the same player name, compared without regard to case.
C1_UniquePlayingNames ==
  \A i, j \in 1..Len(playerlist) :
    (i # j /\ IsPlaying(playerlist[i]) /\ IsPlaying(playerlist[j]))
      => ~ciStringEqual(playerlist[i].playername, playerlist[j].playername)

(***************************************************************************)
(* C2                                                                      *)
(***************************************************************************)

\* C2: every session starts in eAwaitingName, and a session enters ePlaying
\* only when a line from its client is dispatched in eAwaitingPassword or in
\* eConfirmPassword and that line is equal to the session's password; no
\* other state or input leads to ePlaying.
C2_PlayingOnlyByPassword ==
  [][/\ pc = "accept" =>
          \A i \in (Len(playerlist) + 1)..Len(playerlist') :
             playerlist'[i].connstate = "eAwaitingName"
     /\ pc = "read" =>
          \A i \in 1..Len(playerlist) :
             (playerlist[i].connstate # "ePlaying" /\ playerlist'[i].connstate = "ePlaying")
               => /\ i = cursor
                  /\ TakesData
                  /\ \E k \in 1..Len(Dispatched) :
                       LET d == Dispatched[k]
                       IN  /\ d.before[i].connstate \in {"eAwaitingPassword", "eConfirmPassword"}
                           /\ d.after[i].connstate = "ePlaying"
                           /\ d.line = d.before[i].password]_vars

(***************************************************************************)
(* C3                                                                      *)
(***************************************************************************)

\* a session that holds nothing of a player
IdentityCleared(p) ==
  /\ p.playername = <<>>
  /\ p.password = <<>>
  /\ p.room = INITIAL_ROOM
  /\ p.flags = {}

\* C3: a line dispatched in eAwaitingPassword that does not give the
\* password is a failed attempt. The failed attempt that makes
\* MAX_PASSWORD_ATTEMPTS in a row leaves the session in eAwaitingName with
\* its player name, password, room and flags cleared and not closing; an
\* earlier failed attempt leaves it in eAwaitingPassword.
C3_ThreeFailedAttempts ==
  [][TakesData =>
       \A k \in 1..Len(Dispatched) :
          LET b == Dispatched[k].before[cursor]
              a == Dispatched[k].after[cursor]
          IN  (b.connstate = "eAwaitingPassword" /\ FirstWord(Dispatched[k].line) # b.password)
                => IF b.badPasswordCount + 1 = MAX_PASSWORD_ATTEMPTS
                     THEN a.connstate = "eAwaitingName" /\ IdentityCleared(a) /\ ~a.closing
                     ELSE a.connstate = "eAwaitingPassword"]_vars

(***************************************************************************)
(* C4                                                                      *)
(***************************************************************************)

\* a message that no handler sends
TestMessage == Fmt("<broadcast>", <<>>)

\* the room restrictions of a broadcast: 0 is no restriction
Restrictions == {0} \cup DOMAIN roommap \cup {playerlist[j].room : j \in 1..Len(playerlist)}

\* the sessions that are to receive a broadcast that excludes the session
\* except (0: nobody) and is restricted to room (0: no restriction)
Receives(p, j, except, room) ==
  /\ p.connstate = "ePlaying"
  /\ ~p.closing
  /\ p.s # NO_SOCKET
  /\ j # except
  /\ room # 0 => p.room = room

\* the main program is where it calls SendToAll: in PeriodicUpdates, in the
\* handlers of the lines that ProcessRead dispatches, and on shutdown
Sending == pc \in {"periodic", "read", "shutdown"}

\* C4: wherever the program sends to all, a broadcast appends its message to
\* the output buffer of exactly the
\* sessions that are playing, not closing, with a live socket, not the
\* excluded session and, when a room restriction is given, in that room;
\* every other session is unchanged.
C4_BroadcastReceivers ==
  Sending =>
    \A except \in 0..Len(playerlist) : \A room \in Restrictions :
      LET sent == SendToAll(playerlist, TestMessage, except, room)
      IN  /\ Len(sent) = Len(playerlist)
          /\ \A j \in 1..Len(playerlist) :
               sent[j] = IF Receives(playerlist[j], j, except, room)
                           THEN [playerlist[j] EXCEPT !.outbuf = Append(@, TestMessage)]
                           ELSE playerlist[j]

\* the player at the cursor has just entered the game: a session that is
\* playing has the announcement once, and a session that has quit and is
\* closing does not have it
C4_Witness ==
  /\ pc = "write"
  /\ cursor \in 1..Len(playerlist)
  /\ \E i, j \in 1..Len(playerlist) :
       LET m == Fmt("Player %s has joined the game from %s.\n",
                    <<playerlist[cursor].playername, playerlist[cursor].address>>)
       IN  /\ i # cursor /\ j # cursor
           /\ IsPlaying(playerlist[i]) /\ Count(playerlist[i].outbuf, m) = 1
           /\ playerlist[j].connstate = "ePlaying" /\ playerlist[j].closing
           /\ Count(playerlist[j].outbuf, m) = 0
           /\ playerlist[cursor].connstate = "ePlaying"
           /\ Count(playerlist[cursor].outbuf, m) = 0

(***************************************************************************)
(* C5                                                                      *)
(***************************************************************************)

\* the rooms that a player can be located in
PlayerRooms == DOMAIN roommap \cup {playerlist[j].room : j \in 1..Len(playerlist)}

\* C5: wherever the program sends to all, a broadcast restricted to a room R
\* that a player can be located in
\* never appends text to a session whose room is not R, and a broadcast
\* that excludes a session X never appends text to X.
C5_OtherRoomsAndExcluded ==
  Sending =>
    /\ \A R \in PlayerRooms : \A except \in 0..Len(playerlist) :
         LET sent == SendToAll(playerlist, TestMessage, except, R)
         IN  \A j \in 1..Len(playerlist) :
               playerlist[j].room # R => sent[j].outbuf = playerlist[j].outbuf
    /\ \A X \in 1..Len(playerlist) : \A room \in Restrictions :
         SendToAll(playerlist, TestMessage, X, room)[X].outbuf = playerlist[X].outbuf

\* the player at the cursor has just said something: a playing session in
\* another room and the speaker have not been told, a session in the room has
C5_Witness ==
  /\ pc = "write"
  /\ \E i, j \in 1..Len(playerlist) :
       LET p == playerlist[cursor]
           said(q) == \E k \in 1..Len(q.outbuf) :
                         /\ q.outbuf[k].text = "%s says, \"%s\"\n"
                         /\ q.outbuf[k].args[1] = p.playername
       IN  /\ i # cursor /\ j # cursor
           /\ IsPlaying(playerlist[i]) /\ playerlist[i].room = p.room /\ said(playerlist[i])
           /\ IsPlaying(playerlist[j]) /\ playerlist[j].room # p.room /\ ~said(playerlist[j])
           /\ ~said(p)

(***************************************************************************)
(* C6                                                                      *)
(***************************************************************************)

\* lines whose verb is a direction, in either case, with and without more
DirectionLines ==
  {<<"n">>, <<"N">>, <<"s">>, <<"S">>, <<"u">>, <<"d">>, <<"D">>,
   <<"s", " ", "o", "u", "t">>}

\* the rooms to which the exits that the room declares for the verb lead
ExitsFor(vnum, verb) ==
  IF vnum \in DOMAIN roommap
    THEN {roommap[vnum].exits[k].to :
            k \in {x \in 1..Len(roommap[vnum].exits) : roommap[vnum].exits[x].dir = verb}}
    ELSE {}

TestFlags ==
  {f_gagged, <<"G", "a", "g", "g", "e", "d">>, f_can_goto}

\* the words by which player i can name player j to GetPlayer
NamesFor(i, j) ==
  (IF j = i THEN {w_me, <<"S", "e", "l", "f">>} ELSE {})
    \cup (IF /\ IsPlaying(playerlist[j])
             /\ \A k \in 1..Len(playerlist) :
                  (k # j /\ IsPlaying(playerlist[k]))
                    => ~ciStringEqual(playerlist[k].playername, playerlist[j].playername)
            THEN {tolower(playerlist[j].playername)}
            ELSE {})

\* the line of a command with the name of a player and the name of a flag
FlagLine(command, who, flag) == command \o <<" ">> \o who \o <<" ">> \o flag

\* the set of flags holds the flag (flags are compared ignoring case)
Holds(flags, flag) == \E y \in flags : ciStringEqual(y, flag)

\* C7: for an issuer who holds can_setflag and whose line can be dispatched, a target and a valid name of a
\* flag: setflag of a flag that the target holds is rejected ("Flag already
\* set.") and leaves the flags of the target unchanged; clearflag of a flag
\* that the target does not hold is rejected ("Flag not set.") and leaves
\* them unchanged; a setflag that succeeds, followed by clearflag of the same
\* flag, is followed by the confirmation of clearflag and the flags of the
\* target as they were before the setflag.
C7_SetFlagClearFlag ==
  \A i, j \in 1..Len(playerlist) :
    (/\ Reading(i)
     /\ playerlist[i].connstate = "ePlaying"
     /\ Holds(playerlist[i].flags, f_can_setflag)) =>
      \A who \in NamesFor(i, j) : \A flag \in TestFlags :
        LET p       == playerlist[i]
            t       == playerlist[j]
            set     == ProcessPlayerInput(playerlist, i, FlagLine(w_setflag, who, flag), files).pl
            clear   == ProcessPlayerInput(playerlist, i, FlagLine(w_clearflag, who, flag), files).pl
            both    == ProcessPlayerInput(set, i, FlagLine(w_clearflag, who, flag), files).pl
            done    == Fmt("You set the flag '%s' for %s\n", <<flag, t.playername>>)
            cleared == Fmt("You clear the flag '%s' for %s\n", <<flag, t.playername>>)
        IN  /\ Holds(t.flags, flag)
                 => /\ set[j].flags = t.flags
                    /\ Gained(p, set[i]) = <<Fmt("Flag already set.\n", <<>>), p.prompt>>
            /\ ~Holds(t.flags, flag)
                 => /\ clear[j].flags = t.flags
                    /\ Gained(p, clear[i]) = <<Fmt("Flag not set.\n", <<>>), p.prompt>>
            /\ Gained(p, set[i]) = <<done, p.prompt>>
                 => /\ Holds(set[j].flags, flag)
                    /\ Gained(set[i], both[i]) = <<cleared, p.prompt>>
                    /\ both[j].flags = t.flags

\* the player at the cursor has set a flag that was not set and has cleared
\* it again, and has been refused a flag that was set and one that was not
C7_Witness ==
  /\ pc = "write"
  /\ cursor \in 1..Len(playerlist)
  /\ LET out == playerlist[cursor].outbuf
     IN  /\ Count(out, Fmt("Flag already set.\n", <<>>)) = 1
         /\ Count(out, Fmt("Flag not set.\n", <<>>)) = 1
         /\ Count(out, Fmt("You set the flag '%s' for %s\n", <<f_gagged, n_Bob>>)) = 1
         /\ Count(out, Fmt("You clear the flag '%s' for %s\n", <<f_gagged, n_Bob>>)) = 1
  /\ \E j \in 1..Len(playerlist) :
       /\ playerlist[j].playername = n_Bob
       /\ IsPlaying(playerlist[j])
       /\ ~Holds(playerlist[j].flags, f_gagged)

(***************************************************************************)
(* C8                                                                      *)
(***************************************************************************)

\* a new tPlayer that is given the name of p and loads the file that the
\* Save of p writes
LoadedAfterSave(p) ==
  Load([tPlayer(NO_SOCKET, <<>>) EXCEPT !.playername = p.playername], Save(p, files))

\* C8: Load of a name immediately after Save of a player with that name
\* yields exactly the saved password, room and flag set, whatever they are
\* (the empty flag set included): here for every player that the server
\* saves, that is, every session in ePlaying.
C8_LoadAfterSave ==
  \A i \in 1..Len(playerlist) :
    playerlist[i].connstate = "ePlaying"
      => /\ LoadedAfterSave(playerlist[i]).password = playerlist[i].password
         /\ LoadedAfterSave(playerlist[i]).room = playerlist[i].room
         /\ LoadedAfterSave(playerlist[i]).flags = playerlist[i].flags

(***************************************************************************)
(* C9                                                                      *)
(***************************************************************************)

\* no player file and no playing session has the name
Unused(pl, name, fs) == ~FileExists(fs, tocapitals(name)) /\ FindPlayer(pl, name) = 0

\* C9: a session reaches eConfirmPassword only by the lines "new", a valid
\* name that is not reserved and a password that is not empty. When the
\* next line is the same password again and the name is unused, the session
\* ends in ePlaying bound to that name, in INITIAL_ROOM, with the greeting
\* for new players appended to its output exactly once.
C9_RegistrationEndsPlaying ==
  [][TakesData =>
       \A k \in 1..Len(Dispatched) :
          LET d == Dispatched[k]
              b == d.before[cursor]
              a == d.after[cursor]
          IN  (/\ b.connstate = "eConfirmPassword"
               /\ d.line = b.password
               /\ Unused(d.before, b.playername, files))
                => /\ a.connstate = "ePlaying"
                   /\ a.playername = b.playername
                   /\ a.room = INITIAL_ROOM
                   /\ Count(Gained(b, a), Fmt(messagemap.new_player, <<>>)) = 1]_vars

(***************************************************************************)
(* C10                                                                     *)
(***************************************************************************)

\* what a player says
TestSayings == {<<"h", "i">>, <<"a", " ", " ", "b">>}

\* C10: when a player who is in the game, not gagged, and whose line can be
\* dispatched says m, which is
\* not empty, the player gains the echo "You say" with m and the prompt;
\* every other session that is playing (not closing, with a live socket) in
\* the same room gains "<name> says" with m exactly once and nothing else;
\* every other session, those in other rooms included, is unchanged.
C10_Say ==
  \A i \in 1..Len(playerlist) :
    (/\ Reading(i)
     /\ playerlist[i].connstate = "ePlaying"
     /\ ~Holds(playerlist[i].flags, f_gagged)) =>
      \A m \in TestSayings :
        LET p     == playerlist[i]
            after == ProcessPlayerInput(playerlist, i, w_say \o <<" ">> \o m, files).pl
            heard == Fmt("%s says, \"%s\"\n", <<p.playername, m>>)
        IN  /\ after[i] = [p EXCEPT !.outbuf = @ \o <<Fmt("You say, \"%s\"\n", <<m>>), p.prompt>>]
            /\ \A j \in 1..Len(playerlist) :
                 j # i =>
                   IF /\ playerlist[j].connstate = "ePlaying"
                      /\ ~playerlist[j].closing
                      /\ playerlist[j].s # NO_SOCKET
                      /\ playerlist[j].room = p.room
                     THEN /\ Gained(playerlist[j], after[j]) = <<heard>>
                          /\ after[j] = [playerlist[j] EXCEPT !.outbuf = Append(@, heard)]
                     ELSE after[j] = playerlist[j]

\* the player at the cursor has just said "hello  there": the player has
\* the echo once, a player in the room has heard it once, and a player in
\* another room has gained nothing since entering the game
C10_Witness ==
  /\ pc = "write"
  /\ cursor \in 1..Len(playerlist)
  /\ LET p     == playerlist[cursor]
         m     == <<"h", "e", "l", "l", "o", " ", " ", "t", "h", "e", "r", "e">>
         heard == Fmt("%s says, \"%s\"\n", <<p.playername, m>>)
     IN  /\ Count(p.outbuf, Fmt("You say, \"%s\"\n", <<m>>)) = 1
         /\ Count(p.outbuf, heard) = 0
         /\ \E i, j \in 1..Len(playerlist) :
              /\ i # cursor /\ j # cursor
              /\ IsPlaying(playerlist[i]) /\ playerlist[i].room = p.room
              /\ Count(playerlist[i].outbuf, heard) = 1
              /\ IsPlaying(playerlist[j]) /\ playerlist[j].room # p.room
              /\ \A k \in 1..Len(playerlist[j].outbuf) :
                   playerlist[j].outbuf[k].text # "%s says, \"%s\"\n"

(***************************************************************************)
(* C11                                                                     *)
(***************************************************************************)

\* lines that succeed or fail in one protocol state or another
TestLines ==
  {<<>>,
   <<"n", "e", "w">>,
   <<"b", "o", "b">>,
   <<"A", "m", "y">>,
   <<"b", "-", "b">>,
   <<"p", "w">>,
   <<"n", "o">>,
   <<"l", "o", "o", "k">>,
   <<"l", "o", "o", "k", " ", "u", "p">>,
   <<"q", "u", "i", "t">>,
   <<"x", "y", "z", "z", "y">>,
   <<"u">>,
   <<"s", "a", "y", " ", "h", "i">>,
   <<"s", "h", "u", "t", "d", "o", "w", "n">>}

\* C11: whenever a line of a session can be dispatched, in whatever
\* protocol state the session is and whether the handler returns or throws,
\* the text that the dispatch appends to the session's output buffer is not
\* empty and ends with the prompt that the session has after the handler ran.
C11_OutputEndsWithPrompt ==
  \A i \in 1..Len(playerlist) :
    Reading(i) =>
      \A line \in TestLines :
        LET after  == ProcessPlayerInput(playerlist, i, line, files).pl[i]
            gained == Gained(playerlist[i], after)
        IN  /\ gained # <<>>
            /\ gained[Len(gained)] = after.prompt

\* the player at the cursor has just given a wrong password: the output
\* ends with the error and, after it, the prompt for the password
C11_Witness ==
  /\ pc = "write"
  /\ cursor \in 1..Len(playerlist)
  /\ LET p == playerlist[cursor]
         n == Len(p.outbuf)
     IN  /\ p.connstate = "eAwaitingPassword"
         /\ n >= 2
         /\ p.outbuf[n - 1] = Fmt("That password is incorrect.\n", <<>>)
         /\ p.outbuf[n] = p.prompt

(***************************************************************************)
(* C12                                                                     *)
(***************************************************************************)

\* commands that fail for one player or another: an argument that is
\* missing or not valid, a flag that the player lacks, a verb that is not a
\* command, a room that does not exist, a player who is not connected, a
\* flag that is not set
FailLines ==
  {<<"t", "r", "a", "n", "s", "f", "e", "r", " ", "b", "o", "b", " ", "9", "9", "9", "9">>,
   <<"t", "r", "a", "n", "s", "f", "e", "r", " ", "n", "o", "b", "o", "d", "y">>,
   <<"g", "o", "t", "o", " ", "9", "9", "9", "9">>,
   <<"g", "o", "t", "o">>,
   <<"x", "y", "z", "z", "y">>,
   <<"s", "e", "t", "f", "l", "a", "g">>,
   <<"s", "e", "t", "f", "l", "a", "g", " ", "b", "o", "b">>,
   <<"c", "l", "e", "a", "r", "f", "l", "a", "g", " ", "b", "o", "b", " ", "n", "o", "s", "u", "c", "h">>,
   <<"t", "e", "l", "l", " ", "n", "o", "b", "o", "d", "y", " ", "h", "i">>,
   <<"s", "a", "y">>,
   <<"s", "h", "u", "t", "d", "o", "w", "n", " ", "n", "o", "w">>,
   <<"l", "o", "o", "k", " ", "u", "p">>,
   <<"u">>}

\* C12: when a command of a player who is in the game fails (the handler
\* throws), all that the dispatch does is append the error, as one line,
\* and the prompt to the output of that player: every other field of every
\* session, the output of every other session and bStopNow are as before.
C12_FailedCommandOnlyReports ==
  \A i \in 1..Len(playerlist) :
    (Reading(i) /\ playerlist[i].connstate = "ePlaying") =>
      \A line \in FailLines :
        LET failed == ProcessCommand(playerlist, i, istringstream(line))
            done   == ProcessPlayerInput(playerlist, i, line, files)
        IN  failed.thrown =>
              /\ done.pl = Out(Out(playerlist, i,
                                   Fmt(failed.what.text \o "\n", failed.what.args)),
                               i, playerlist[i].prompt)
              /\ ~done.stop

(***************************************************************************)
(* C13                                                                     *)
(***************************************************************************)

\* C13: RemoveInactivePlayers leaves no session that is closing or whose
\* socket is dead, so a session that is one or the other when
\* processDescriptors comes to its output was marked by the handling of
\* its input in this iteration of MainLoop; ProcessWrite is not run for such
\* a session, that is, the step leaves the session as it is.
C13_NoLaterPhaseOnceClosing ==
  [][(/\ pc = "write"
      /\ playerlist[cursor].closing \/ ~Connected(playerlist[cursor]))
       => playerlist'[cursor] = playerlist[cursor]]_vars

(***************************************************************************)
(* C14                                                                     *)
(***************************************************************************)

\* C14: no step of MainLoop other than RemoveInactivePlayers takes a
\* session out of playerlist: the sessions stay, in their places, while
\* players are accepted, serviced and sent to (CloseComms, after the loop,
\* deletes them all). RemoveInactivePlayers takes out every session that is
\* closing or whose socket is dead and no other, so that no session is
\* closing or dead when the descriptor sets are built for select.
C14_RemovalOnlyByReap ==
  [][/\ pc \notin {"reap", "closecomms"} =>
          /\ Len(playerlist') >= Len(playerlist)
          /\ \A j \in 1..Len(playerlist) :
               /\ playerlist'[j].address = playerlist[j].address
               /\ playerlist'[j].s \in {playerlist[j].s, NO_SOCKET}
     /\ pc = "reap" =>
          /\ playerlist' = SelectSeq(playerlist, LAMBDA p : ~p.closing /\ p.s # NO_SOCKET)
          /\ pc' = "select"
     /\ pc' = "select" =>
          \A j \in 1..Len(playerlist') :
             ~playerlist'[j].closing /\ playerlist'[j].s # NO_SOCKET]_vars

\* the descriptor sets are about to be built, and of two sessions the first
\* has been removed: the one that is left has the second socket
C14_Witness ==
  /\ pc = "select"
  /\ Len(playerlist) = 1
  /\ playerlist[1].s = 2
  /\ ~net[1].open

(***************************************************************************)
(* C15                                                                     *)
(***************************************************************************)

\* what DoQuit sends to the others
Departure(name) == Fmt("Player %s has left the game.\n", <<name>>)

\* C15: a session that is closing or whose socket is dead is read no more
\* and is saved by its destructor, so a player leaves the game in one read
\* of the player's input (a quit among its lines, or the connection found
\* closed). In that read every other player who is in the game gains the
\* announcement that the player has left exactly once, whatever the lines
\* of the read are; in every other read nobody gains it.
C15_DepartureAnnouncedOnce ==
  [][pc = "read" =>
       LET before == playerlist[cursor]
           after  == playerlist'[cursor]
           leaves == /\ ~before.closing /\ Connected(before)
                     /\ after.closing \/ ~Connected(after)
                     /\ after.connstate = "ePlaying"
       IN  \A j \in 1..Len(playerlist) :
             (j # cursor /\ IsPlaying(playerlist[j])) =>
                Count(Gained(playerlist[j], playerlist'[j]), Departure(after.playername))
                  = IF leaves THEN 1 ELSE 0]_vars

(***************************************************************************)
(* C16                                                                     *)
(***************************************************************************)

\* C16: when players are destroyed, by RemoveInactivePlayers or by
\* CloseComms, all the output that is pending for those whose sockets are
\* alive has been written to their sockets: the destructors leave no item
\* of it unsent.
C16_DestructionFlushesOutput == discarded = 0

(***************************************************************************)
(* C17                                                                     *)
(***************************************************************************)

\* the greatest of a set of numbers that is not empty
Greatest(set) == CHOOSE k \in set : \A m \in set : m <= k

\* C17: a session that has entered the game stays in ePlaying until it is
\* destroyed. When sessions are destroyed, a player file is written for
\* each of them that is in ePlaying, and holds its password, room and flags
\* as they are then (the file of a name is that of the last such session
\* destroyed); the destruction of any other session creates no file and
\* leaves every file as it is.
C17_SavedIffPlaying ==
  [][/\ pc \notin {"reap", "closecomms"} =>
          \A j \in 1..Len(playerlist) :
             playerlist[j].connstate = "ePlaying" => playerlist'[j].connstate = "ePlaying"
     /\ pc \in {"reap", "closecomms"} =>
          LET gone == IF pc = "reap"
                        THEN SelectSeq(playerlist, LAMBDA p : p.closing \/ p.s = NO_SOCKET)
                        ELSE playerlist
              Saved(name) == {k \in 1..Len(gone) : /\ gone[k].connstate = "ePlaying"
                                                    /\ gone[k].playername = name}
          IN  /\ DOMAIN files' =
                   DOMAIN files \cup {gone[k].playername :
                                        k \in {m \in 1..Len(gone) : gone[m].connstate = "ePlaying"}}
              /\ \A name \in DOMAIN files' :
                   IF Saved(name) = {}
                     THEN name \in DOMAIN files /\ files'[name] = files[name]
                     ELSE files'[name] = SaveText(gone[Greatest(Saved(name))])]_vars

\* the game is over; Amy, who registered, has a player file with the
\* password she chose, and the file of Bob is the one there was
C17_Witness ==
  /\ pc = "done"
  /\ n_Amy \in DOMAIN files
  /\ SubSeq(files[n_Amy], 1, 3) = pw \o <<"\n">>
  /\ files[n_Bob] = InitialFiles[n_Bob]

(***************************************************************************)
(* C18                                                                     *)
(***************************************************************************)

GameOver == Fmt("\n\n** Game shut down. **\n\n", <<>>)

\* C18: once bStopNow is set, the iteration of MainLoop goes on as it would
\* have: the read that set it leaves no complete line undispatched, the
\* player is then written to, and every player after that one is read from
\* and written to in turn. When the last player is done the loop ends, and
\* no other iteration starts. Then every player who is in the game is sent
\* the final message and nobody else is sent anything; then all players are
\* destroyed and their sockets closed, and there is a saved record, with
\* its password, room and flags, of each one that is in ePlaying.
C18_ShutdownCompletesTick ==
  [][/\ (pc = "read" /\ bStopNow') =>
          /\ find(playerlist'[cursor].inbuf, "\n") = 0
          /\ pc' = "write" /\ cursor' = cursor
     /\ (pc = "write" /\ bStopNow) =>
          /\ cursor' = cursor + 1
          /\ pc' = IF cursor < Len(playerlist) THEN "read" ELSE "check"
     /\ (pc = "check" /\ bStopNow) => pc' = "shutdown"
     /\ pc' = "periodic" => ~bStopNow
     /\ pc = "shutdown" =>
          /\ Len(playerlist') = Len(playerlist)
          /\ \A j \in 1..Len(playerlist) :
               playerlist'[j] =
                 IF /\ playerlist[j].connstate = "ePlaying"
                    /\ ~playerlist[j].closing
                    /\ playerlist[j].s # NO_SOCKET
                   THEN [playerlist[j] EXCEPT !.outbuf = Append(@, GameOver)]
                   ELSE playerlist[j]
          /\ pc' = "closecomms"
     /\ pc = "closecomms" =>
          /\ playerlist' = <<>>
          /\ \A fd \in 1..Len(net') : ~net'[fd].open
          /\ \A j \in 1..Len(playerlist) :
               playerlist[j].connstate = "ePlaying" =>
                 /\ playerlist[j].playername \in DOMAIN files'
                 /\ \E k \in 1..Len(playerlist) :
                      /\ playerlist[k].playername = playerlist[j].playername
                      /\ files'[playerlist[j].playername] = SaveText(playerlist[k])]_vars

\* the loop has ended after a shutdown command, and a player who comes
\* later in the list was still served in that iteration: that player's
\* quit was dispatched after the player had been told of the shutdown
C18_Witness ==
  /\ pc = "shutdown"
  /\ bStopNow
  /\ \E j \in 1..Len(playerlist) :
       \E k, m \in 1..Len(playerlist[j].outbuf) :
          /\ k < m
          /\ playerlist[j].outbuf[k].text = "%s shuts down the game\n"
          /\ playerlist[j].outbuf[m] = Fmt("See you next time!\n", <<>>)

(***************************************************************************)
(* C19                                                                     *)
(***************************************************************************)

\* lines of commands that have an effect guarded by a flag
PrivilegedLines ==
  {<<"s", "h", "u", "t", "d", "o", "w", "n">>,
   <<"s", "e", "t", "f", "l", "a", "g", " ", "m", "e", " ", "g", "a", "g", "g", "e", "d">>,
   <<"s", "e", "t", "f", "l", "a", "g", " ", "b", "o", "b", " ", "c", "a", "n", "_", "g", "o", "t", "o">>,
   <<"s", "e", "t", "f", "l", "a", "g", " ", "g", "u", "s", " ", "c", "a", "n", "_", "s", "h", "u", "t", "d", "o", "w", "n">>,
   <<"c", "l", "e", "a", "r", "f", "l", "a", "g", " ", "g", "u", "s", " ", "g", "a", "g", "g", "e", "d">>,
   <<"c", "l", "e", "a", "r", "f", "l", "a", "g", " ", "a", "n", "n", " ", "c", "a", "n", "_", "g", "o", "t", "o">>,
   <<"g", "o", "t", "o", " ", "1", "0", "0", "1">>,
   <<"g", "o", "t", "o", " ", "1", "0", "0", "2">>,
   <<"t", "r", "a", "n", "s", "f", "e", "r", " ", "b", "o", "b", " ", "1", "0", "0", "1">>,
   <<"t", "r", "a", "n", "s", "f", "e", "r", " ", "a", "n", "n", " ", "1", "0", "0", "2">>,
   <<"t", "r", "a", "n", "s", "f", "e", "r", " ", "g", "u", "s">>,
   <<"s", "a", "y", " ", "h", "i">>,
   <<"\"", " ", "h", "i">>,
   <<"t", "e", "l", "l", " ", "a", "n", "n", " ", "h", "i">>,
   <<"t", "e", "l", "l", " ", "b", "o", "b", " ", "h", "i">>}

\* C19: for every line that a player who is in the game can send: the
\* dispatch of the line sets bStopNow only if the player holds can_shutdown;
\* it changes the flags of a player only if the issuer holds can_setflag;
\* goto changes the room of the issuer only if the issuer holds can_goto;
\* the room of another player changes only if the issuer holds
\* can_transfer; and say, its alias and tell of a player who holds gagged
\* append nothing to the output of another session.
C19_PrivilegesGateEffects ==
  \A i \in 1..Len(playerlist) :
    (Reading(i) /\ playerlist[i].connstate = "ePlaying") =>
      \A line \in PrivilegedLines :
        LET Gated(p, r, verb) ==
              /\ r.stop => Holds(p.flags, f_can_shutdown)
              /\ (\E j \in 1..Len(playerlist) : r.pl[j].flags # playerlist[j].flags)
                   => Holds(p.flags, f_can_setflag)
              /\ (verb = w_goto /\ r.pl[i].room # p.room)
                   => Holds(p.flags, f_can_goto)
              /\ (\E j \in 1..Len(playerlist) : j # i /\ r.pl[j].room # playerlist[j].room)
                   => Holds(p.flags, f_can_transfer)
              /\ (Holds(p.flags, f_gagged) /\ verb \in {w_say, w_quote, w_tell})
                   => \A j \in 1..Len(playerlist) :
                        j # i => r.pl[j].outbuf = playerlist[j].outbuf
        IN  Gated(playerlist[i], ProcessPlayerInput(playerlist, i, line, files), FirstWord(line))

\* a player who holds gagged has said something and has been refused, and
\* the other player in the room, who is in the game, has heard nothing
C19_Witness ==
  /\ pc = "write"
  /\ cursor \in 1..Len(playerlist)
  /\ Holds(playerlist[cursor].flags, f_gagged)
  /\ Count(playerlist[cursor].outbuf, Fmt(NotPermitted.text \o "\n", <<>>)) = 1
  /\ \E j \in 1..Len(playerlist) :
       /\ j # cursor
       /\ IsPlaying(playerlist[j])
       /\ playerlist[j].room = playerlist[cursor].room
       /\ \A k \in 1..Len(playerlist[j].outbuf) :
            playerlist[j].outbuf[k].text # "%s says, \"%s\"\n"

(***************************************************************************)
(* C20                                                                     *)
(***************************************************************************)

\* C20: the step that accepts takes all the connections that are pending,
\* in one loop. A connection from a blocked address adds no session to the
\* player list; every other connection adds exactly one session, in the
\* order of the connections, that awaits a name, is not closing, has a
\* socket of its own on which the client is heard, and has in its output
\* the banner, the welcome message and the prompt for the name; the
\* sessions that were in the list are as before. No other step adds a
\* session.
C20_AcceptDrainsPending ==
  [][LET taken    == SubSeq(waiting, 1, Len(waiting) - Len(waiting'))
         admitted == SelectSeq(taken, LAMBDA c : c.address \notin blockedIP)
         old      == Len(playerlist)
     IN  /\ pc = "accept" =>
              /\ waiting' = SubSeq(waiting, Len(taken) + 1, Len(waiting))
              /\ Len(playerlist') = old + Len(admitted)
              /\ SubSeq(playerlist', 1, old) = playerlist
              /\ \A k \in 1..Len(admitted) :
                   /\ playerlist'[old + k].address = admitted[k].address
                   /\ playerlist'[old + k].address \notin blockedIP
                   /\ playerlist'[old + k].connstate = "eAwaitingName"
                   /\ ~playerlist'[old + k].closing
                   /\ playerlist'[old + k].outbuf =
                        <<Fmt("\nWelcome to the Tiny MUD Server version 2.0.0\n", <<>>),
                          Fmt(messagemap.welcome, <<>>),
                          Fmt("Enter your name, or 'new' to create a new character ...  ", <<>>)>>
                   /\ Connected(playerlist'[old + k])
                   /\ \A j \in 1..(old + k - 1) : playerlist'[j].s # playerlist'[old + k].s
                   /\ net'[playerlist'[old + k].s].open
                   /\ net'[playerlist'[old + k].s].chunks = admitted[k].chunks
         /\ pc # "accept" => Len(playerlist') <= Len(playerlist)
    ]_vars

\* two connections were pending, the first of them from a blocked address:
\* both have been taken and the second alone has a session
C20_Witness ==
  /\ pc = "read"
  /\ waiting = <<>>
  /\ Len(playerlist) = 1
  /\ playerlist[1].address = a_home
  /\ playerlist[1].connstate = "eAwaitingName"
  /\ Len(playerlist[1].outbuf) = 3
  /\ net[playerlist[1].s].chunks = c_bob.chunks
  /\ \A fd \in 1..Len(net) : net[fd].open => fd = playerlist[1].s

(***************************************************************************)
(* C21                                                                     *)
(***************************************************************************)

\* C21: for every line dispatched to a session that is in eConfirmPassword:
\* a line equal to the chosen password, when the chosen name is unused (no
\* player file and no playing session has it), moves the session to
\* ePlaying under that name (its record is written when the session is
\* destroyed); a line that differs from the chosen password moves it to
\* eAwaitingNewPassword; a line equal to the chosen password, when the
\* chosen name is no longer unused, moves it to eAwaitingNewName.
C21_ConfirmPassword ==
  [][TakesData =>
       \A k \in 1..Len(Dispatched) :
          LET d == Dispatched[k]
              b == d.before[cursor]
              a == d.after[cursor]
          IN  b.connstate = "eConfirmPassword" =>
                /\ (d.line = b.password /\ Unused(d.before, b.playername, files))
                     => a.connstate = "ePlaying" /\ a.playername = b.playername
                /\ d.line # b.password
                     => a.connstate = "eAwaitingNewPassword"
                /\ (d.line = b.password /\ ~Unused(d.before, b.playername, files))
                     => a.connstate = "eAwaitingNewName"]_vars

(***************************************************************************)
(* C22                                                                     *)
(***************************************************************************)

\* what the others are told when a player enters the game
Arrival(p) == Fmt("Player %s has joined the game from %s.\n", <<p.playername, p.address>>)

RECURSIVE Concatenation(_)
\* the texts of a sequence, one after another
Concatenation(texts) ==
  IF texts = <<>> THEN <<>> ELSE Head(texts) \o Concatenation(Tail(texts))

\* C23: for a player whose socket is alive, the bytes that the socket has
\* taken so far, followed by the output buffer, are all the texts that were
\* appended for the player, in the order in which they were appended: a
\* write that blocks, a write that takes less than it was given and the
\* limit of 512 bytes for one write lose nothing, repeat nothing and
\* change no order.
C23_OutputIsConserved ==
  Connected(playerlist[1]) => wire \o playerlist[1].outbuf = Concatenation(appended)

\* the socket has taken more than one write can send but not all, after a
\* write that took less than it was given, and text was appended after it
C23_Witness ==
  /\ Len(wire) > MaxWriteLength
  /\ Len(wire) % MaxWriteLength # 0
  /\ playerlist[1].outbuf # <<>>
  /\ Len(appended) = MaxTexts
  /\ Len(wire) < Len(Concatenation(SubSeq(appended, 1, 2)))

(***************************************************************************)
(* C24                                                                     *)
(***************************************************************************)

\* bytes that a client sends: commands, lines of a login and of a
\* registration, a line with white space around it, an empty line, a line
\* that is not finished, and a line after quit
TestStreams ==
  {<<"l", "o", "o", "k", "\n", "s", "a", "y", " ", "h", "i", "\n">>,
   <<" ", "l", "o", "o", "k", " ", "\t", "\n", "\n", "q", "u">>,
   <<"b", "o", "b", "\n", "p", "w", "\n", "l", "o", "o", "k", "\n">>,
   <<"n", "e", "w", "\n", "a", "m", "y", "\n", "p", "w", "\n", "p", "w", "\n", "s", "a", "y", " ", "h", "i", "\n">>,
   <<"q", "u", "i", "t", "\n", "l", "o", "o", "k", "\n">>}

RECURSIVE LinesOf(_)
\* the lines of a buffer that end in a newline, in order, each trimmed
LinesOf(buf) ==
  IF find(buf, "\n") = 0
    THEN <<>>
    ELSE <<Trim(SubSeq(buf, 1, find(buf, "\n") - 1))>>
           \o LinesOf(SubSeq(buf, find(buf, "\n") + 1, Len(buf)))

RECURSIVE Unfinished(_)
\* the bytes of a buffer after its last newline
Unfinished(buf) ==
  IF find(buf, "\n") = 0 THEN buf ELSE Unfinished(SubSeq(buf, find(buf, "\n") + 1, Len(buf)))

\* C24: for a session that is connected and not closing, and bytes that
\* arrive: the read dispatches the lines that end in a newline, each once,
\* trimmed and in order, each to the handler of the state that the line
\* before it has left, and leaves the bytes after the last newline in
\* inbuf; and when the same bytes arrive in two reads, split anywhere, the
\* sessions, their output and bStopNow are afterwards as when they arrive
\* in one.
C24_ReadsSplitAnywhere ==
  \A i \in 1..Len(playerlist) :
    (Reading(i) /\ Connected(playerlist[i]) /\ ~playerlist[i].closing) =>
      \A data \in TestStreams :
        LET Same(whole, first, second) ==
              /\ second.pl = whole.pl
              /\ (first.stop \/ second.stop) = whole.stop
            Split(whole, first, rest) ==
              Same(whole, first, ProcessReadData(first.pl, i, rest, files))
            InOrder(ds, buf, whole) ==
              /\ Len(ds) = Len(LinesOf(buf))
              /\ \A n \in 1..Len(ds) :
                   /\ ds[n].line = LinesOf(buf)[n]
                   /\ ds[n].after =
                        ProcessPlayerInput(ds[n].before, i, ds[n].line, files).pl
                   /\ n > 1 => [ds[n].before EXCEPT ![i].inbuf = <<>>]
                                 = [ds[n - 1].after EXCEPT ![i].inbuf = <<>>]
              /\ whole.pl[i].inbuf = Unfinished(buf)
        IN  /\ InOrder(Dispatches([playerlist EXCEPT ![i].inbuf = @ \o data], i, files),
                       playerlist[i].inbuf \o data,
                       ProcessReadData(playerlist, i, data, files))
            /\ \A k \in 1..(Len(data) - 1) :
                 Split(ProcessReadData(playerlist, i, data, files),
                       ProcessReadData(playerlist, i, SubSeq(data, 1, k), files),
                       SubSeq(data, k + 1, Len(data)))

(***************************************************************************)
(* C25                                                                     *)
(***************************************************************************)

\* C25: no line is dispatched for a session that is closing: not in a
\* later read, and not in the read in which the session was marked closing.
C25_NoDispatchOnceClosing ==
  [][/\ (pc = "read" /\ playerlist[cursor].closing)
          => playerlist' = playerlist /\ bStopNow' = bStopNow
     /\ (TakesData /\ ~playerlist[cursor].closing)
          => \A k \in 1..Len(Dispatched) : ~Dispatched[k].before[cursor].closing]_vars

(***************************************************************************)
(* C26                                                                     *)
(***************************************************************************)

\* lines that move a player: the line, the name of the player who is moved
\* (none: the player who sends the line) and the room to which the line
\* leads (by the exit of that name, to the room of the sender, or to the
\* room of the number given)
MoveCases ==
  {[line |-> <<"n">>,
    who |-> <<>>, by |-> "exit", to |-> 0],
   [line |-> <<"s">>,
    who |-> <<>>, by |-> "exit", to |-> 0],
   [line |-> <<"g", "o", "t", "o", " ", "1", "0", "0", "1">>,
    who |-> <<>>, by |-> "room", to |-> 1001],
   [line |-> <<"g", "o", "t", "o", " ", "1", "0", "0", "0">>,
    who |-> <<>>, by |-> "room", to |-> 1000],
   [line |-> <<"g", "o", "t", "o", " ", "1", "0", "0", "2">>,
    who |-> <<>>, by |-> "room", to |-> 1002],
   [line |-> <<"t", "r", "a", "n", "s", "f", "e", "r", " ", "b", "o", "b", " ", "1", "0", "0", "1">>,
    who |-> <<"B", "o", "b">>, by |-> "room", to |-> 1001],
   [line |-> <<"t", "r", "a", "n", "s", "f", "e", "r", " ", "c", "a", "t", " ", "1", "0", "0", "0">>,
    who |-> <<"C", "a", "t">>, by |-> "room", to |-> 1000],
   [line |-> <<"t", "r", "a", "n", "s", "f", "e", "r", " ", "c", "a", "t">>,
    who |-> <<"C", "a", "t">>, by |-> "here", to |-> 0],
   [line |-> <<"t", "r", "a", "n", "s", "f", "e", "r", " ", "b", "o", "b">>,
    who |-> <<"B", "o", "b">>, by |-> "here", to |-> 0],
   [line |-> <<"t", "r", "a", "n", "s", "f", "e", "r", " ", "B", "O", "B", " ", "1", "0", "0", "2">>,
    who |-> <<"B", "o", "b">>, by |-> "room", to |-> 1002]}

\* what the others in the old room are told
LeftMessage(verb, name) ==
  IF verb = w_goto THEN Fmt("%s disappears in a puff of smoke!\n", <<name>>)
  ELSE IF verb = w_transfer THEN Fmt("%s is yanked away by unseen forces!\n", <<name>>)
  ELSE Fmt("%s goes %s\n", <<name, verb>>)

\* what the others in the new room are told
CameMessage(verb, name) ==
  IF verb = w_goto THEN Fmt("%s appears in a puff of smoke!\n", <<name>>)
  ELSE IF verb = w_transfer THEN Fmt("%s appears breathlessly!\n", <<name>>)
  ELSE Fmt("%s enters.\n", <<name>>)

\* C26: when a line of a player who is in the game moves a player P (the
\* sender, by a direction or goto; the player named, by transfer) from
\* room A to a room B that exists, then afterwards the room of P is B; the
\* message of the departure has been appended, once, to exactly the
\* sessions other than P that are playing and were in A, the message of
\* the arrival, once, to exactly the sessions other than P that are
\* playing and are in B, and P has received neither.
C26_MoveAnnouncedInBothRooms ==
  \A i \in 1..Len(playerlist) :
    (Reading(i) /\ playerlist[i].connstate = "ePlaying") =>
      \A c \in MoveCases :
        LET Told(after, P, A, B, left, came) ==
              /\ after[P].room = B
              /\ B \in DOMAIN roommap
              /\ \A j \in 1..Len(playerlist) :
                   /\ Count(Gained(playerlist[j], after[j]), left)
                        = IF j # P /\ IsPlaying(playerlist[j]) /\ playerlist[j].room = A
                            THEN 1 ELSE 0
                   /\ Count(Gained(playerlist[j], after[j]), came)
                        = IF j # P /\ IsPlaying(after[j]) /\ after[j].room = B
                            THEN 1 ELSE 0
            To(P, verb) ==
              IF c.by = "here" THEN playerlist[i].room
              ELSE IF c.by = "exit"
                THEN CHOOSE b \in ExitsFor(playerlist[P].room, verb) : TRUE
              ELSE c.to
            Moved(r, P, verb) ==
              ~r.thrown =>
                Told(r.pl, P, playerlist[P].room, To(P, verb),
                     LeftMessage(verb, playerlist[P].playername),
                     CameMessage(verb, playerlist[P].playername))
        IN  Moved(ProcessCommand(playerlist, i, istringstream(c.line)),
                  IF c.who = <<>> THEN i ELSE FindPlayer(playerlist, c.who),
                  FirstWord(c.line))

\* a player has gone north from the hall to the yard, where nobody is, and
\* south again: the player who is in the hall has been told once of the
\* departure to the north and once of an arrival, and not of the departure
\* from the yard; the player who went has been told of none of them
C26_Witness ==
  \E i, j \in 1..Len(playerlist) :
    /\ j # i
    /\ IsPlaying(playerlist[i]) /\ playerlist[i].room = 1000
    /\ IsPlaying(playerlist[j]) /\ playerlist[j].room = 1000
    /\ Count(playerlist[i].outbuf, Fmt("You go %s\n", <<<<"n">>>>)) = 1
    /\ Count(playerlist[i].outbuf, Fmt("You go %s\n", <<<<"s">>>>)) = 1
    /\ Count(playerlist[j].outbuf, LeftMessage(<<"n">>, playerlist[i].playername)) = 1
    /\ Count(playerlist[j].outbuf, CameMessage(<<"s">>, playerlist[i].playername)) = 1
    /\ Count(playerlist[j].outbuf, LeftMessage(<<"s">>, playerlist[i].playername)) = 0
    /\ Count(playerlist[i].outbuf, LeftMessage(<<"n">>, playerlist[i].playername)) = 0
    /\ Count(playerlist[i].outbuf, LeftMessage(<<"s">>, playerlist[i].playername)) = 0
    /\ Count(playerlist[i].outbuf, CameMessage(<<"s">>, playerlist[i].playername)) = 0

(***************************************************************************)
(* C27                                                                     *)
(***************************************************************************)

\* lines that lead to a room that is not in the map: the line, the flag
\* that the sender needs, the name of the player who is moved (none: the
\* sender) and the room (by the exit of that name, or of the number given)
MissingRoomCases ==
  {[line |-> <<"u">>,
    flag |-> <<>>, who |-> <<>>, by |-> "exit", to |-> 0],
   [line |-> <<"g", "o", "t", "o", " ", "9", "9", "9", "9">>,
    flag |-> <<"c", "a", "n", "_", "g", "o", "t", "o">>, who |-> <<>>, by |-> "room", to |-> 9999],
   [line |-> <<"g", "o", "t", "o", " ", "0">>,
    flag |-> <<"c", "a", "n", "_", "g", "o", "t", "o">>, who |-> <<>>, by |-> "room", to |-> 0],
   [line |-> <<"t", "r", "a", "n", "s", "f", "e", "r", " ", "b", "o", "b", " ", "9", "9", "9", "9">>,
    flag |-> <<"c", "a", "n", "_", "t", "r", "a", "n", "s", "f", "e", "r">>, who |-> <<"B", "o", "b">>, by |-> "room", to |-> 9999],
   [line |-> <<"t", "r", "a", "n", "s", "f", "e", "r", " ", "c", "a", "t", " ", "0">>,
    flag |-> <<"c", "a", "n", "_", "t", "r", "a", "n", "s", "f", "e", "r">>, who |-> <<"C", "a", "t">>, by |-> "room", to |-> 0],
   [line |-> <<"t", "r", "a", "n", "s", "f", "e", "r", " ", "a", "n", "n", " ", "9", "9", "9", "9">>,
    flag |-> <<"c", "a", "n", "_", "t", "r", "a", "n", "s", "f", "e", "r">>, who |-> <<"A", "n", "n">>, by |-> "room", to |-> 9999]}

\* C27: the room of every player exists. When a line of a player who is in
\* the game asks for a move to a room that is not in the map (by an exit
\* that leads nowhere, by goto or by transfer), the command fails; when the
\* sender holds the flag that the command needs, the player to be moved is
\* in the game and the exit is declared, it fails with "Room number ...
\* does not exist."; the room of every player is as before, every session
\* other than the sender's is unchanged, and the sender's gains no message
\* of a departure or an arrival.
C27_NoMoveToMissingRoom ==
  /\ \A j \in 1..Len(playerlist) : playerlist[j].room \in DOMAIN roommap
  /\ \A i \in 1..Len(playerlist) :
       (Reading(i) /\ playerlist[i].connstate = "ePlaying") =>
         \A c \in MissingRoomCases :
           LET Asked(verb) ==
                 /\ c.flag # <<>> => Holds(playerlist[i].flags, c.flag)
                 /\ c.who # <<>> => FindPlayer(playerlist, c.who) \notin {0, i}
                 /\ c.by = "exit" => ExitsFor(playerlist[i].room, verb) # {}
               To(verb) ==
                 IF c.by = "exit"
                   THEN CHOOSE b \in ExitsFor(playerlist[i].room, verb) : TRUE
                   ELSE c.to
               Failed(r, verb) ==
                 /\ r.thrown
                 /\ Asked(verb) => /\ To(verb) \notin DOMAIN roommap
                                   /\ r.what = RoomMissing(To(verb))
                 /\ \A j \in 1..Len(playerlist) :
                      /\ r.pl[j].room = playerlist[j].room
                      /\ j # i => r.pl[j] = playerlist[j]
                      /\ Count(Gained(playerlist[i], r.pl[i]),
                               LeftMessage(verb, playerlist[j].playername)) = 0
                      /\ Count(Gained(playerlist[i], r.pl[i]),
                               CameMessage(verb, playerlist[j].playername)) = 0
                 /\ [r.pl[i] EXCEPT !.outbuf = <<>>] = [playerlist[i] EXCEPT !.outbuf = <<>>]
           IN  Failed(ProcessCommand(playerlist, i, istringstream(c.line)), FirstWord(c.line))

\* a player in the hall has tried to go up, where the exit leads to room
\* 9999, and has been told that there is no such room; the other player in
\* the hall has been told of no departure upwards, and of one departure
\* and one arrival only, those of the moves to the yard and back
C27_Witness ==
  /\ pc = "write"
  /\ cursor \in 1..Len(playerlist)
  /\ Count(playerlist[cursor].outbuf,
           Fmt(RoomMissing(9999).text \o "\n", RoomMissing(9999).args)) = 1
  /\ playerlist[cursor].room \in DOMAIN roommap
  /\ \E j \in 1..Len(playerlist) :
       /\ j # cursor
       /\ IsPlaying(playerlist[j])
       /\ playerlist[j].room = INITIAL_ROOM
       /\ Count(playerlist[j].outbuf, LeftMessage(<<"u">>, playerlist[cursor].playername)) = 0
       /\ Count(playerlist[j].outbuf, LeftMessage(<<"n">>, playerlist[cursor].playername)) = 1
       /\ Count(playerlist[j].outbuf, CameMessage(<<"u">>, playerlist[cursor].playername)) = 1

(***************************************************************************)
(* C28                                                                     *)
(***************************************************************************)

\* verbs that differ from the name of a direction in the case of letters
\* only
CaseVariants == {<<"N">>, <<"S">>, <<"U">>}

\* C28: when a player who is in the game sends a verb that differs only in
\* the case of its letters from a direction that the room of the player
\* declares, the player is moved through that exit as by the verb in the
\* case of the declaration: the rooms of all players are afterwards the
\* same, and the command fails for the one if and only if it fails for the
\* other.
C28_ExitNamesIgnoreCase ==
  \A i \in 1..Len(playerlist) :
    (Reading(i) /\ playerlist[i].connstate = "ePlaying" /\ RoomExists(playerlist[i].room)) =>
      \A verb \in CaseVariants :
        \A k \in 1..Len(roommap[playerlist[i].room].exits) :
          LET Alike(declared, given) ==
                /\ given.thrown = declared.thrown
                /\ \A j \in 1..Len(playerlist) : given.pl[j].room = declared.pl[j].room
              As(dir) ==
                ciStringEqual(dir, verb) =>
                  Alike(ProcessCommand(playerlist, i, istringstream(dir)),
                        ProcessCommand(playerlist, i, istringstream(verb)))
          IN  As(roommap[playerlist[i].room].exits[k].dir)

(***************************************************************************)
(* C29                                                                     *)
(***************************************************************************)

\* lines that are given as a name: empty and blank lines, characters that
\* are not allowed, names with and without a record, names of players who
\* are in the game, and names that are not permitted
TestNames ==
  {<<>>,
   <<" ", " ", " ">>,
   <<"b", "-", "b">>,
   <<"b", "o", "b">>,
   <<"B", "O", "B">>,
   <<"a", "m", "y">>,
   <<"A", "m", "y">>,
   <<"z", "e", "d">>,
   <<"n", "e", "w">>,
   <<"N", "E", "W">>,
   <<"q", "u", "i", "t">>,
   <<"e", "v", "e">>}

\* the errors with which a name is rejected
NameErrors(name) ==
  {Fmt("Name cannot be blank.", <<>>),
   Fmt("%s is already connected.", <<name>>),
   Fmt("That player name contains disallowed characters.", <<>>),
   Fmt("That player does not exist, type 'new' to create a new one.", <<>>),
   Fmt("That name is not permitted.", <<>>),
   AlreadyExists}

ToldNames ==
  {<<"b", "o", "b">>, <<"a", "n", "n">>, <<"C", "A", "T">>, <<"m", "e">>, <<"S", "e", "l", "f">>, <<"z", "e", "d">>, <<"e", "v", "e">>}

\* C30: for a player P who is in the game and does not hold gagged, a name
\* and a message: when the name is that of a player T in the game who is
\* not P, the tell appends "P tells you, ..." once to the output of T, and
\* T and every session other than P are otherwise unchanged; when the name
\* is P's own, "me" or "self", or that of nobody in the game, the tell is
\* rejected and every session other than P's is unchanged.
C30_Tell ==
  \A i \in 1..Len(playerlist) :
    (Reading(i) /\ IsPlaying(playerlist[i]) /\ ~Holds(playerlist[i].flags, f_gagged)) =>
      \A who \in ToldNames : \A what \in TestSayings :
        LET Heard(r, T, told) ==
              IF T \notin {0, i}
                THEN /\ ~r.thrown
                     /\ r.pl[T] = [playerlist[T] EXCEPT !.outbuf = Append(@, told)]
                     /\ \A j \in 1..Len(playerlist) :
                          j \notin {i, T} => r.pl[j] = playerlist[j]
                ELSE /\ r.thrown
                     /\ \A j \in 1..Len(playerlist) : j # i => r.pl[j] = playerlist[j]
        IN  Heard(ProcessCommand(playerlist, i,
                                 istringstream(w_tell \o <<" ">> \o who \o <<" ">> \o what)),
                  IF ciStringEqual(who, w_me) \/ ciStringEqual(who, w_self)
                    THEN i
                    ELSE FindPlayer(playerlist, who),
                  Fmt("%s tells you, \"%s\"\n", <<playerlist[i].playername, what>>))

\* Bob has told Ann something and has tried to tell himself: Ann has heard
\* it once, and Bob has been refused and has heard nothing
C30_Witness ==
  /\ pc = "write"
  /\ cursor \in 1..Len(playerlist)
  /\ playerlist[cursor].playername = n_Bob
  /\ Count(playerlist[cursor].outbuf, Fmt("You cannot do that to yourself.\n", <<>>)) = 1
  /\ Count(playerlist[cursor].outbuf, Fmt("%s tells you, \"%s\"\n", <<n_Bob, <<"h", "i">>>>)) = 0
  /\ \E j \in 1..Len(playerlist) :
       /\ IsPlaying(playerlist[j]) /\ playerlist[j].playername = n_Ann
       /\ Count(playerlist[j].outbuf, Fmt("%s tells you, \"%s\"\n", <<n_Bob, <<"h", "i">>>>)) = 1

(***************************************************************************)
(* C31                                                                     *)
(***************************************************************************)

C33_DisconnectKeepsLoginState ==
  [][(/\ pc = "read"
      /\ Connected(playerlist[cursor])
      /\ playerlist[cursor].connstate # "ePlaying"
      /\ ~net'[playerlist[cursor].s].open) =>
        /\ playerlist'[cursor].connstate = playerlist[cursor].connstate
        /\ playerlist'[cursor].playername = playerlist[cursor].playername
        /\ \A j \in 1..Len(playerlist) : j # cursor => playerlist'[j] = playerlist[j]
        /\ files' = files
        /\ Inactive(playerlist'[cursor])
        /\ Destroy(<<playerlist'[cursor]>>, files') = files']_vars

(***************************************************************************)
(* C34                                                                     *)
(***************************************************************************)

\* the sockets of the sessions of a run with one client
Sockets == {1}

\* the session on socket fd is not closing and has output pending
OutputPending(fd) ==
  \E j \in 1..Len(playerlist) :
    /\ playerlist[j].s = fd
    /\ ~playerlist[j].closing
    /\ PendingOutput(playerlist[j])

\* the output of the session on socket fd has all been written, or the
\* session is closing, or there is no session with that socket any more
\* (the socket is dead, or the session has been destroyed)
OutputWritten(fd) ==
  \A j \in 1..Len(playerlist) :
    playerlist[j].s = fd => (playerlist[j].closing \/ ~PendingOutput(playerlist[j]))

\* C34: when the main loop goes on and the sockets take what they are
\* offered at some time, the output that is pending for a session that is
\* not closing is written in full at some later time, unless the session
\* is closing or its socket dead or destroyed by then; and whenever select
\* is called, the socket of every session with a live socket and pending
\* output is in the set of the sockets to be written.
C34_OutputIsWritten ==
  /\ \A fd \in Sockets : OutputPending(fd) ~> OutputWritten(fd)
  /\ [](pc = "accept" =>
          \A j \in 1..Len(playerlist) :
            (Connected(playerlist[j]) /\ PendingOutput(playerlist[j])) =>
              playerlist[j].s \in out_set)

\* a socket has taken less than all of the output that was pending, and
\* the output of a player who is in the game has since been written in
\* full
C34_Witness ==
  /\ pc = "check"
  /\ shortWrites >= 1
  /\ discarded = 0
  /\ \E j \in 1..Len(playerlist) :
       /\ IsPlaying(playerlist[j])
       /\ playerlist[j].outbuf = <<>>

====
